---------------------------- MODULE Spec2Model ----------------------------
(***************************************************************************)
(* A model of wozardry (a2-4am/wozardry): the WOZ1/WOZ2/MOOF container     *)
(* parser (WozDiskImage.load), its serializer (WozDiskImage.dump) and the  *)
(* byte-level helpers they use.  Byte strings are sequences of 0..255,     *)
(* decoded text is a sequence of Unicode code points.  Python's 0-based    *)
(* half-open slices are kept (Slice), as are the real chunk sizes.         *)
(***************************************************************************)
EXTENDS Integers, Sequences, FiniteSets, TLC

(***************************************************************************)
(* Domain constants of wozardry.py                                         *)
(***************************************************************************)
kWOZ1 == <<87, 79, 90, 49>>
kWOZ2 == <<87, 79, 90, 50>>
kMOOF == <<77, 79, 79, 70>>
kINFO == <<73, 78, 70, 79>>
kTMAP == <<84, 77, 65, 80>>
kTRKS == <<84, 82, 75, 83>>
kWRIT == <<87, 82, 73, 84>>
kFLUX == <<70, 76, 85, 88>>
kMETA == <<77, 69, 84, 65>>
kBitstreamLengthInBytes == 6646
kDefaultBitTiming == <<0, 32, 16>>
\* tDefaultCreator = "wozardry 2.2.0"
tDefaultCreator == <<119, 111, 122, 97, 114, 100, 114, 121, 32, 50, 46, 50, 46, 48>>
\* kRequiresMachine = ("2","2+","2e","2c","2e+","2gs","2c+","3","3+")
kRequiresMachine ==
  << <<50>>, <<50, 43>>, <<50, 101>>, <<50, 99>>, <<50, 101, 43>>,
     <<50, 103, 115>>, <<50, 99, 43>>, <<51>>, <<51, 43>> >>

NoError == "none"

(***************************************************************************)
(* Python sequence helpers                                                 *)
(***************************************************************************)
\* s[i:j] for 0 <= i, 0 <= j (clamped to the length, never an error)
Slice(s, i, j) ==
  LET hi == IF j < Len(s) THEN j ELSE Len(s)
  IN IF i >= hi THEN <<>> ELSE SubSeq(s, i + 1, hi)

\* s[i] for 0 <= i < len(s)
At(s, i) == s[i + 1]

\* x in s, for a sequence s
InSeq(x, s) == \E i \in 1..Len(s) : s[i] = x

Repeat(b, n) == [i \in 1..n |-> b]

\* bytes.ljust(n, fill)
LJust(s, n, fill) == IF Len(s) >= n THEN s ELSE s \o Repeat(fill, n - Len(s))

(***************************************************************************)
(* Little-endian integers                                                  *)
(***************************************************************************)
\* int.from_bytes(b, byteorder="little"), for values below 2^31
RECURSIVE from_uint32(_)
from_uint32(b) ==
  IF b = <<>> THEN 0 ELSE b[1] + 256 * from_uint32(Tail(b))
from_uint16(b) == from_uint32(b)
from_uint8(b) == from_uint32(b)

\* int.to_bytes raises OverflowError when the value does not fit (or is
\* negative); every modelled integer is below 2^31 and fits 4 bytes
FitsUint(v, n) == v >= 0 /\ (n >= 4 \/ v < 256 ^ n)
to_uint32(v) == << v % 256, (v \div 256) % 256, (v \div 65536) % 256, (v \div 16777216) % 256 >>
to_uint16(v) == << v % 256, (v \div 256) % 256 >>
to_uint8(v) == << v % 256 >>

(***************************************************************************)
(* binascii.crc32 (CRC-32, reflected polynomial 0xEDB88320)                *)
(***************************************************************************)
\* a ^ b for 4-bit values, bit by bit
XorNibbleTable ==
  [a \in 0..15 |-> [b \in 0..15 |->
     ((a + b) % 2) + 2 * (((a \div 2) + (b \div 2)) % 2)
     + 4 * (((a \div 4) + (b \div 4)) % 2) + 8 * (((a \div 8) + (b \div 8)) % 2)]]

Xor8(a, b) ==
  16 * XorNibbleTable[a \div 16][b \div 16] + XorNibbleTable[a % 16][b % 16]

Xor16(a, b) == 256 * Xor8(a \div 256, b \div 256) + Xor8(a % 256, b % 256)

\* A 32-bit CRC value is kept as its four little-endian bytes (the form
\* to_uint32 gives it in the header); table entries are computed on the
\* pair <<high 16 bits, low 16 bits>>; the polynomial is <<0xEDB8, 0x8320>>.

RECURSIVE CrcTableEntry(_, _, _)
CrcTableEntry(hi, lo, k) ==
  IF k = 0 THEN << lo % 256, lo \div 256, hi % 256, hi \div 256 >>
  ELSE LET shi == hi \div 2
           slo == (lo \div 2) + 32768 * (hi % 2)
       IN IF lo % 2 = 1
          THEN CrcTableEntry(Xor16(shi, 60856), Xor16(slo, 33568), k - 1)
          ELSE CrcTableEntry(shi, slo, k - 1)

CrcTable == [n \in 0..255 |-> CrcTableEntry(0, n, 8)]

\* crc = table[(crc ^ b) & 0xFF] ^ (crc >> 8)
CrcByte(c, b) ==
  LET t == CrcTable[Xor8(c[1], b)]
  IN << Xor8(t[1], c[2]), Xor8(t[2], c[3]), Xor8(t[3], c[4]), t[4] >>

\* folds CrcByte over s[lo..hi] (1-based, inclusive) by halving the range;
\* the test on left makes TLC evaluate the left half before the right one
RECURSIVE CrcRange(_, _, _, _)
CrcRange(c, s, lo, hi) ==
  IF lo > hi THEN c
  ELSE IF lo = hi THEN CrcByte(c, s[lo])
  ELSE LET mid == (lo + hi) \div 2
           left == CrcRange(c, s, lo, mid)
       IN IF Len(left) = 4 THEN CrcRange(left, s, mid + 1, hi) ELSE left

\* binascii.crc32(s) & 0xffffffff, as four little-endian bytes
crc32(s) ==
  LET c == CrcRange(<<255, 255, 255, 255>>, s, 1, Len(s))
  IN << 255 - c[1], 255 - c[2], 255 - c[3], 255 - c[4] >>

(***************************************************************************)
(* bytes.decode("UTF-8") / str.encode("UTF-8") / str.strip()               *)
(***************************************************************************)
\* number of bytes of the well-formed UTF-8 sequence starting at s[i]
\* (1-based), or 0 when the bytes there are not well-formed UTF-8
Utf8SeqLen(s, i) ==
  LET IsCont(b) == b >= 128 /\ b <= 191
      n == Len(s)
      b0 == s[i]
      c1 == IF i + 1 <= n THEN s[i + 1] ELSE 0
      c2 == IF i + 2 <= n THEN s[i + 2] ELSE 0
      c3 == IF i + 3 <= n THEN s[i + 3] ELSE 0
  IN IF b0 < 128 THEN 1
     ELSE IF b0 >= 194 /\ b0 <= 223 THEN (IF IsCont(c1) THEN 2 ELSE 0)
     ELSE IF b0 = 224 THEN (IF c1 >= 160 /\ c1 <= 191 /\ IsCont(c2) THEN 3 ELSE 0)
     ELSE IF b0 = 237 THEN (IF c1 >= 128 /\ c1 <= 159 /\ IsCont(c2) THEN 3 ELSE 0)
     ELSE IF b0 >= 225 /\ b0 <= 239 THEN (IF IsCont(c1) /\ IsCont(c2) THEN 3 ELSE 0)
     ELSE IF b0 = 240 THEN (IF c1 >= 144 /\ c1 <= 191 /\ IsCont(c2) /\ IsCont(c3) THEN 4 ELSE 0)
     ELSE IF b0 >= 241 /\ b0 <= 243 THEN (IF IsCont(c1) /\ IsCont(c2) /\ IsCont(c3) THEN 4 ELSE 0)
     ELSE IF b0 = 244 THEN (IF c1 >= 128 /\ c1 <= 143 /\ IsCont(c2) /\ IsCont(c3) THEN 4 ELSE 0)
     ELSE 0

RECURSIVE Utf8Valid(_, _)
Utf8Valid(s, i) ==
  IF i > Len(s) THEN TRUE
  ELSE LET k == Utf8SeqLen(s, i)
       IN IF k = 0 THEN FALSE ELSE Utf8Valid(s, i + k)

\* the decoded code points of a well-formed byte string
RECURSIVE Utf8Decode(_, _)
Utf8Decode(s, i) ==
  IF i > Len(s) THEN <<>>
  ELSE LET k == Utf8SeqLen(s, i)
       IN << IF k = 1 THEN s[i]
             ELSE IF k = 2 THEN (s[i] - 192) * 64 + (s[i + 1] - 128)
             ELSE IF k = 3
             THEN (s[i] - 224) * 4096 + (s[i + 1] - 128) * 64 + (s[i + 2] - 128)
             ELSE (s[i] - 240) * 262144 + (s[i + 1] - 128) * 4096
                  + (s[i + 2] - 128) * 64 + (s[i + 3] - 128) >>
          \o Utf8Decode(s, i + k)

RECURSIVE Utf8Encode(_)
Utf8Encode(str) ==
  IF str = <<>> THEN <<>>
  ELSE LET c == str[1]
       IN (IF c < 128 THEN <<c>>
           ELSE IF c < 2048 THEN <<192 + (c \div 64), 128 + (c % 64)>>
           ELSE IF c < 65536
           THEN <<224 + (c \div 4096), 128 + ((c \div 64) % 64), 128 + (c % 64)>>
           ELSE <<240 + (c \div 262144), 128 + ((c \div 4096) % 64),
                  128 + ((c \div 64) % 64), 128 + (c % 64)>>)
          \o Utf8Encode(Tail(str))

\* str.strip(): IsSpace holds of the characters it removes (str.isspace())
Strip(str) ==
  LET IsSpace(c) ==
        \/ (c >= 9 /\ c <= 13) \/ (c >= 28 /\ c <= 32) \/ c = 133 \/ c = 160
        \/ c = 5760 \/ (c >= 8192 /\ c <= 8202) \/ c = 8232 \/ c = 8233
        \/ c = 8239 \/ c = 8287 \/ c = 12288
      keep == {i \in 1..Len(str) : ~IsSpace(str[i])}
  IN IF keep = {} THEN <<>>
     ELSE LET lo == CHOOSE i \in keep : \A j \in keep : i <= j
              hi == CHOOSE i \in keep : \A j \in keep : i >= j
          IN SubSeq(str, lo, hi)

(***************************************************************************)
(* The in-memory image (WozDiskImage) and its validators.  A validator     *)
(* returns [err, val]: err is the name of the exception class it raises,   *)
(* or NoError.  Integer arguments are the value from_intish yields.        *)
(***************************************************************************)
Ok(v) == [err |-> NoError, val |-> v]
Raise(e) == [err |-> e, val |-> 0]

\* info has no "largest_track" key until a WOZ2 INFO chunk is loaded
NoKey == -1
\* self.writ = None
None == [present |-> FALSE, data |-> <<>>]
Some(b) == [present |-> TRUE, data |-> b]

Track(raw_bytes, raw_count) == [raw_bytes |-> raw_bytes, raw_count |-> raw_count]

reset ==
  [ image_type |-> kWOZ2,
    info |-> [ version |-> 2, disk_type |-> 1, write_protected |-> FALSE,
               synchronized |-> FALSE, cleaned |-> FALSE,
               creator |-> tDefaultCreator, disk_sides |-> 1,
               boot_sector_format |-> 0, optimal_bit_timing |-> 32,
               compatible_hardware |-> <<>>, required_ram |-> 0,
               largest_track |-> NoKey ],
    tmap |-> Repeat(255, 160),
    tracks |-> <<>>,
    writ |-> None,
    flux |-> <<>>,
    meta |-> <<>> ]

\* is_booleanish / from_booleanish on an int (or on the bytes of that int)
is_booleanish(v) == v \in {0, 1}
from_booleanish(v, errorClass) ==
  IF ~is_booleanish(v) THEN Raise(errorClass) ELSE Ok(v = 1)

\* to_uint8(True) = b"\x01", to_uint8(False) = b"\x00"
BoolInt(b) == IF b THEN 1 ELSE 0

validate_info_version(image_type, version) ==
  IF image_type = kWOZ1 /\ version # 1 THEN Raise("WozINFOFormatError_BadVersion")
  ELSE IF image_type = kWOZ2 /\ version < 2 THEN Raise("WozINFOFormatError_BadVersion")
  ELSE IF image_type = kMOOF /\ version # 1 THEN Raise("WozINFOFormatError_BadVersion")
  ELSE Ok(version)

validate_info_disk_type(image_type, disk_type) ==
  IF image_type = kMOOF
  THEN (IF disk_type \notin {0, 1, 2, 3}
        THEN Raise("WozINFOFormatError_BadDiskType") ELSE Ok(disk_type))
  ELSE (IF disk_type \notin {1, 2}
        THEN Raise("WozINFOFormatError_BadDiskType") ELSE Ok(disk_type))

validate_info_write_protected(v) ==
  from_booleanish(v, "WozINFOFormatError_BadWriteProtected")

validate_info_synchronized(v) ==
  from_booleanish(v, "WozINFOFormatError_BadSynchronized")

validate_info_cleaned(v) ==
  from_booleanish(v, "WozINFOFormatError_BadCleaned")

validate_info_creator(creator_as_bytes) ==
  IF Len(creator_as_bytes) > 32 THEN Raise("WozINFOFormatError_BadCreator")
  ELSE IF ~Utf8Valid(creator_as_bytes, 1) THEN Raise("WozINFOFormatError_BadCreator")
  ELSE Ok(Strip(Utf8Decode(creator_as_bytes, 1)))

\* returns [err, val]: the 32 padded bytes, or the error of the validation
encode_info_creator(creator_as_string) ==
  LET creator_as_bytes == LJust(Utf8Encode(creator_as_string), 32, 32)
      v == validate_info_creator(creator_as_bytes)
  IN IF v.err # NoError THEN Raise(v.err) ELSE Ok(creator_as_bytes)

validate_info_disk_sides(info, disk_sides) ==
  IF info.disk_type = 1
  THEN (IF disk_sides # 1
        THEN Raise("WozINFOFormatError_BadDiskSides") ELSE Ok(disk_sides))
  ELSE IF info.disk_type = 2
  THEN (IF disk_sides \notin {1, 2}
        THEN Raise("WozINFOFormatError_BadDiskSides") ELSE Ok(disk_sides))
  ELSE Ok(disk_sides)

validate_info_boot_sector_format(info, boot_sector_format) ==
  IF info.disk_type = 1
  THEN (IF boot_sector_format \notin {0, 1, 2, 3}
        THEN Raise("WozINFOFormatError_BadBootSectorFormat") ELSE Ok(boot_sector_format))
  ELSE IF info.disk_type = 2
  THEN (IF boot_sector_format # 0
        THEN Raise("WozINFOFormatError_BadBootSectorFormat") ELSE Ok(boot_sector_format))
  ELSE Ok(boot_sector_format)

validate_info_optimal_bit_timing(image_type, info, optimal_bit_timing) ==
  IF image_type = kMOOF
  THEN (IF optimal_bit_timing \notin {8, 16}
        THEN Raise("WozINFOFormatError_BadOptimalBitTiming") ELSE Ok(optimal_bit_timing))
  ELSE IF info.disk_type = 1
  THEN (IF optimal_bit_timing \notin 24..40
        THEN Raise("WozINFOFormatError_BadOptimalBitTiming") ELSE Ok(optimal_bit_timing))
  ELSE IF info.disk_type = 2
  THEN (IF optimal_bit_timing \notin 8..24
        THEN Raise("WozINFOFormatError_BadOptimalBitTiming") ELSE Ok(optimal_bit_timing))
  ELSE Ok(optimal_bit_timing)

validate_info_compatible_hardware(compatible_hardware_raw) ==
  LET compatible_hardware == from_uint16(compatible_hardware_raw)
  IN IF compatible_hardware >= 511
     THEN Raise("WozINFOFormatError_BadCompatibleHardware")
     ELSE Ok(compatible_hardware)

validate_info_required_ram(required_ram) == Ok(required_ram)

\* the loop of _load_info over range(9), offsets from `offset` upward;
\* bitfield & (1 << offset) is bit `offset` of the bitfield
RECURSIVE compatible_hardware_list(_, _)
compatible_hardware_list(bitfield, offset) ==
  IF offset >= 9 THEN <<>>
  ELSE (IF (bitfield \div (2 ^ offset)) % 2 = 1
        THEN <<kRequiresMachine[offset + 1]>> ELSE <<>>)
       \o compatible_hardware_list(bitfield, offset + 1)

\* a step of a handler that may raise: run f on the value unless r failed
Fail(r) == r.err # NoError

\* _load_info: returns [err, val] with val the updated info record; the
\* fields are assigned one by one, and when a validator raises val is info
\* with the fields assigned before it
_load_info(image_type, info0, data) ==
  LET r1 == validate_info_version(image_type, At(data, 0))
  IN IF Fail(r1) THEN [r1 EXCEPT !.val = info0] ELSE
  LET i1 == [info0 EXCEPT !.version = r1.val]
      r2 == validate_info_disk_type(image_type, At(data, 1))
  IN IF Fail(r2) THEN [r2 EXCEPT !.val = i1] ELSE
  LET i2 == [i1 EXCEPT !.disk_type = r2.val]
      r3 == validate_info_write_protected(At(data, 2))
  IN IF Fail(r3) THEN [r3 EXCEPT !.val = i2] ELSE
  LET i3 == [i2 EXCEPT !.write_protected = r3.val]
      r4 == validate_info_synchronized(At(data, 3))
  IN IF Fail(r4) THEN [r4 EXCEPT !.val = i3] ELSE
  LET i4 == [i3 EXCEPT !.synchronized = r4.val]
      r5 == IF image_type = kMOOF
            THEN validate_info_optimal_bit_timing(image_type, i4, At(data, 4))
            ELSE validate_info_cleaned(At(data, 4))
  IN IF Fail(r5) THEN [r5 EXCEPT !.val = i4] ELSE
  LET i5 == IF image_type = kMOOF
            THEN [i4 EXCEPT !.optimal_bit_timing = r5.val]
            ELSE [i4 EXCEPT !.cleaned = r5.val]
      r6 == validate_info_creator(Slice(data, 5, 37))
  IN IF Fail(r6) THEN [r6 EXCEPT !.val = i5] ELSE
  LET i6 == [i5 EXCEPT !.creator = r6.val]
  IN IF image_type # kWOZ2 THEN Ok(i6) ELSE
  LET r7 == validate_info_disk_sides(i6, At(data, 37))
  IN IF Fail(r7) THEN [r7 EXCEPT !.val = i6] ELSE
  LET i7 == [i6 EXCEPT !.disk_sides = r7.val]
      r8 == validate_info_boot_sector_format(i7, At(data, 38))
  IN IF Fail(r8) THEN [r8 EXCEPT !.val = i7] ELSE
  LET i8 == [i7 EXCEPT !.boot_sector_format = r8.val]
      r9 == validate_info_optimal_bit_timing(image_type, i8, At(data, 39))
  IN IF Fail(r9) THEN [r9 EXCEPT !.val = i8] ELSE
  LET i9 == [i8 EXCEPT !.optimal_bit_timing = r9.val]
      r10 == validate_info_compatible_hardware(Slice(data, 40, 42))
  IN IF Fail(r10) THEN [r10 EXCEPT !.val = i9] ELSE
  LET i10 == [i9 EXCEPT !.compatible_hardware = compatible_hardware_list(r10.val, 0)]
      r11 == validate_info_required_ram(from_uint16(Slice(data, 42, 44)))
  IN Ok([i10 EXCEPT !.required_ram = r11.val,
                    !.largest_track = from_uint16(Slice(data, 44, 46))])

_load_tmap(data) == data

_load_flux(data) == data

_load_writ(data) == Some(data)

\* kLanguages = ("English","Spanish","French",...,"Vietnamese","Other")
kLanguages ==
  << <<69, 110, 103, 108, 105, 115, 104>>, <<83, 112, 97, 110, 105, 115, 104>>,
     <<70, 114, 101, 110, 99, 104>>, <<71, 101, 114, 109, 97, 110>>, <<67, 104,
     105, 110, 101, 115, 101>>, <<74, 97, 112, 97, 110, 101, 115, 101>>, <<73,
     116, 97, 108, 105, 97, 110>>, <<68, 117, 116, 99, 104>>, <<80, 111, 114,
     116, 117, 103, 117, 101, 115, 101>>, <<68, 97, 110, 105, 115, 104>>, <<70,
     105, 110, 110, 105, 115, 104>>, <<78, 111, 114, 119, 101, 103, 105, 97,
     110>>, <<83, 119, 101, 100, 105, 115, 104>>, <<82, 117, 115, 115, 105, 97,
     110>>, <<80, 111, 108, 105, 115, 104>>, <<84, 117, 114, 107, 105, 115,
     104>>, <<65, 114, 97, 98, 105, 99>>, <<84, 104, 97, 105>>, <<67, 122, 101,
     99, 104>>, <<72, 117, 110, 103, 97, 114, 105, 97, 110>>, <<67, 97, 116,
     97, 108, 97, 110>>, <<67, 114, 111, 97, 116, 105, 97, 110>>, <<71, 114,
     101, 101, 107>>, <<72, 101, 98, 114, 101, 119>>, <<82, 111, 109, 97, 110,
     105, 97, 110>>, <<83, 108, 111, 118, 97, 107>>, <<85, 107, 114, 97, 105,
     110, 105, 97, 110>>, <<73, 110, 100, 111, 110, 101, 115, 105, 97, 110>>,
     <<77, 97, 108, 97, 121>>, <<86, 105, 101, 116, 110, 97, 109, 101, 115,
     101>>, <<79, 116, 104, 101, 114>> >>

\* kRequiresRAM = ("16K","24K","32K","48K","64K","128K","256K","512K","768K","1M","1.25M","1.5M+","Unknown")
kRequiresRAM ==
  << <<49, 54, 75>>, <<50, 52, 75>>, <<51, 50, 75>>, <<52, 56, 75>>, <<54, 52,
     75>>, <<49, 50, 56, 75>>, <<50, 53, 54, 75>>, <<53, 49, 50, 75>>, <<55,
     54, 56, 75>>, <<49, 77>>, <<49, 46, 50, 53, 77>>, <<49, 46, 53, 77, 43>>,
     <<85, 110, 107, 110, 111, 119, 110>> >>

(***************************************************************************)
(* TRKS, META chunk handlers                                               *)
(***************************************************************************)
\* one iteration of the while loop of _load_trks_v1, then the rest; when it
\* raises, val is self.tracks with the tracks appended before
RECURSIVE _load_trks_v1(_, _, _)
_load_trks_v1(tracks, data, i) ==
  IF ~(i < Len(data)) THEN Ok(tracks) ELSE
  LET raw_bytes == Slice(data, i, i + kBitstreamLengthInBytes)
      i1 == i + kBitstreamLengthInBytes
      bytes_used_raw == Slice(data, i1, i1 + 2)
      bytes_used == from_uint16(bytes_used_raw)
      i2 == i1 + 2
      count_raw == Slice(data, i2, i2 + 2)
      count == from_uint16(count_raw)
      i3 == i2 + 2
      splice_point_raw == Slice(data, i3, i3 + 2)
      splice_point == from_uint16(splice_point_raw)
      i4 == i3 + 2
      i5 == i4 + 1
  IN IF Len(raw_bytes) # kBitstreamLengthInBytes THEN [err |-> "WozEOFError", val |-> tracks]
     ELSE IF Len(bytes_used_raw) # 2 THEN [err |-> "WozEOFError", val |-> tracks]
     ELSE IF bytes_used > kBitstreamLengthInBytes THEN [err |-> "WozTRKSFormatError", val |-> tracks]
     ELSE IF Len(count_raw) # 2 THEN [err |-> "WozEOFError", val |-> tracks]
     ELSE IF Len(splice_point_raw) # 2 THEN [err |-> "WozEOFError", val |-> tracks]
     ELSE IF splice_point # 65535 /\ splice_point > count THEN [err |-> "WozTRKSFormatError", val |-> tracks]
     ELSE IF ~(i4 < Len(data)) THEN [err |-> "IndexError", val |-> tracks]
     ELSE IF ~(i5 < Len(data)) THEN [err |-> "IndexError", val |-> tracks]
     ELSE IF splice_point # 65535 /\ At(data, i5) \notin {8, 9, 10}
          THEN [err |-> "WozTRKSFormatError", val |-> tracks]
     ELSE _load_trks_v1(Append(tracks, Track(raw_bytes, count)), data, i5 + 3)

\* the for loop of _load_trks_v2 from descriptor trk on; when it raises,
\* val is self.tracks with the tracks appended before
RECURSIVE _load_trks_v2(_, _, _)
\* _load_trks_v2 with < for <= in the test of the offset of the bits
_load_trks_v2_lt(tracks, data, trk) ==
  IF trk >= 160 THEN Ok(tracks) ELSE
  LET i == trk * 8
      starting_block == from_uint16(Slice(data, i, i + 2))
      block_count == from_uint16(Slice(data, i + 2, i + 4))
      count == from_uint32(Slice(data, i + 4, i + 8))
      bits_index_into_data == 1280 + (starting_block - 3) * 512
      raw_bytes == Slice(data, bits_index_into_data, bits_index_into_data + block_count * 512)
  IN IF starting_block \in {1, 2} THEN [err |-> "WozTRKSFormatError_BadStartingBlock", val |-> tracks]
     ELSE IF starting_block = 0
     THEN (IF block_count # 0 THEN [err |-> "WozTRKSFormatError_BadBlockCount", val |-> tracks]
           ELSE IF count # 0 THEN [err |-> "WozTRKSFormatError_BadBitCount", val |-> tracks]
           ELSE Ok(tracks))
     ELSE IF Len(data) < bits_index_into_data
     THEN [err |-> "WozTRKSFormatError_BadStartingBlock", val |-> tracks]
     ELSE IF Len(raw_bytes) # block_count * 512
     THEN [err |-> "WozTRKSFormatError_BadBlockCount", val |-> tracks]
     ELSE _load_trks_v2(Append(tracks, Track(raw_bytes, count)), data, trk + 1)

_load_trks_v2(tracks, data, trk) ==
  IF trk >= 160 THEN Ok(tracks) ELSE
  LET i == trk * 8
      starting_block == from_uint16(Slice(data, i, i + 2))
      block_count == from_uint16(Slice(data, i + 2, i + 4))
      count == from_uint32(Slice(data, i + 4, i + 8))
      bits_index_into_data == 1280 + (starting_block - 3) * 512
      raw_bytes == Slice(data, bits_index_into_data, bits_index_into_data + block_count * 512)
  IN IF starting_block \in {1, 2} THEN [err |-> "WozTRKSFormatError_BadStartingBlock", val |-> tracks]
     ELSE IF starting_block = 0
     THEN (IF block_count # 0 THEN [err |-> "WozTRKSFormatError_BadBlockCount", val |-> tracks]
           ELSE IF count # 0 THEN [err |-> "WozTRKSFormatError_BadBitCount", val |-> tracks]
           ELSE Ok(tracks))
     ELSE IF Len(data) <= bits_index_into_data
     THEN [err |-> "WozTRKSFormatError_BadStartingBlock", val |-> tracks]
     ELSE IF Len(raw_bytes) # block_count * 512
     THEN [err |-> "WozTRKSFormatError_BadBlockCount", val |-> tracks]
     ELSE _load_trks_v2(Append(tracks, Track(raw_bytes, count)), data, trk + 1)

_load_trks(image_type, tracks, data) ==
  IF image_type = kWOZ1 THEN _load_trks_v1(tracks, data, 0)
  ELSE _load_trks_v2(tracks, data, 0)

\* str.split(sep) for a one-character separator
RECURSIVE Split(_, _)
Split(str, sep) ==
  LET hits == {i \in 1..Len(str) : str[i] = sep}
  IN IF hits = {} THEN <<str>>
     ELSE LET k == CHOOSE i \in hits : \A j \in hits : i <= j
          IN <<Slice(str, 0, k - 1)>> \o Split(Slice(str, k, Len(str)), sep)

\* sep.join(parts)
RECURSIVE Join(_, _)
Join(parts, sep) ==
  IF parts = <<>> THEN <<>>
  ELSE IF Len(parts) = 1 THEN parts[1]
  ELSE parts[1] \o <<sep>> \o Join(Tail(parts), sep)

\* validate_metadata_language that rejects the empty value too
validate_metadata_language_noempty(language) ==
  IF ~InSeq(language, kLanguages)
  THEN "WozMETAFormatError_BadLanguage" ELSE NoError

validate_metadata_language(language) ==
  IF language # <<>> /\ ~InSeq(language, kLanguages)
  THEN "WozMETAFormatError_BadLanguage" ELSE NoError

validate_metadata_requires_ram(requires_ram) ==
  IF requires_ram # <<>> /\ ~InSeq(requires_ram, kRequiresRAM)
  THEN "WozMETAFormatError_BadRAM" ELSE NoError

validate_metadata_requires_machine(requires_machine) ==
  IF requires_machine # <<>> /\ ~InSeq(requires_machine, kRequiresMachine)
  THEN "WozMETAFormatError_BadMachine" ELSE NoError

validate_metadata_value(value) ==
  IF InSeq(9, value) \/ InSeq(10, value) \/ InSeq(124, value)
  THEN "WozMETAFormatError_BadValue" ELSE NoError

\* list(map(validate, values)) for the keys "language", "requires_ram" and
\* "requires_machine": the error raised, if any
validate_metadata_key(key, values) ==
  IF key = <<108, 97, 110, 103, 117, 97, 103, 101>>
  THEN (IF \E n \in 1..Len(values) : validate_metadata_language(values[n]) # NoError
        THEN "WozMETAFormatError_BadLanguage" ELSE NoError)
  ELSE IF key = <<114, 101, 113, 117, 105, 114, 101, 115, 95, 114, 97, 109>>
  THEN (IF \E n \in 1..Len(values) : validate_metadata_requires_ram(values[n]) # NoError
        THEN "WozMETAFormatError_BadRAM" ELSE NoError)
  ELSE IF key = <<114, 101, 113, 117, 105, 114, 101, 115, 95, 109, 97, 99, 104, 105,
                  110, 101>>
  THEN (IF \E n \in 1..Len(values) : validate_metadata_requires_machine(values[n]) # NoError
        THEN "WozMETAFormatError_BadMachine" ELSE NoError)
  ELSE NoError

\* the loop of _load_meta over the lines, from line n on.  meta is the
\* ordered dict as a sequence of entries [key, str, vals]: str = TRUE for a
\* value that is one string (vals[1]), FALSE for a tuple, as given by
\* len(values) == 1 and values[0] or tuple(values).  When a line raises, val
\* is self.meta with the entries of the lines before it
RECURSIVE _load_meta_lines(_, _, _)
_load_meta_lines(meta, lines, n) ==
  IF n > Len(lines) THEN Ok(meta)
  ELSE IF lines[n] = <<>> THEN _load_meta_lines(meta, lines, n + 1)
  ELSE LET columns_raw == Split(lines[n], 9)
       IN IF Len(columns_raw) < 2 THEN [err |-> "WozMETAFormatError_NotEnoughTabs", val |-> meta]
          ELSE IF Len(columns_raw) > 2 THEN [err |-> "WozMETAFormatError_TooManyTabs", val |-> meta]
          ELSE LET key == columns_raw[1]
                   values == Split(columns_raw[2], 124)
                   e == validate_metadata_key(key, values)
               IN IF \E m \in 1..Len(meta) : meta[m].key = key
                  THEN [err |-> "WozMETAFormatError_DuplicateKey", val |-> meta]
                  ELSE IF e # NoError THEN [err |-> e, val |-> meta]
                  ELSE _load_meta_lines(
                         Append(meta, [key |-> key,
                                       str |-> (Len(values) = 1 /\ values[1] # <<>>),
                                       vals |-> values]),
                         lines, n + 1)

\* validate_metadata + decode_metadata, then the loop
_load_meta(meta, metadata_as_bytes) ==
  IF ~Utf8Valid(metadata_as_bytes, 1)
  THEN [err |-> "WozMETAFormatError_EncodingError", val |-> meta]
  ELSE _load_meta_lines(meta, Split(Utf8Decode(metadata_as_bytes, 1), 10), 1)

(***************************************************************************)
(* WozDiskImage.load, as the steps of its loop.  The loader state is       *)
(*   stream, pos      the iostream and its read position                   *)
(*   stage            "header" (lines 191-200), "chunks" (the while loop), *)
(*                    "check" (after the break), "done" (load returned)    *)
(*   err              the exception that ended load, else NoError; stage   *)
(*                    then stays where the exception was raised            *)
(*   seen_info, seen_tmap, crc_raw, all_data, img   the locals and self    *)
(***************************************************************************)
Loader(stream) ==
  [ stream |-> stream, pos |-> 0, stage |-> "header", err |-> NoError,
    seen_info |-> FALSE, seen_tmap |-> FALSE, crc_raw |-> <<>>,
    all_data |-> <<>>, img |-> reset ]

\* iostream.read(n) at position pos
Read(stream, pos, n) == Slice(stream, pos, pos + n)

Throw(s, e) == [s EXCEPT !.err = e]

\* _load_header with the 0x0A0D0A test made before the 0xFF test
_load_header_lf_first(data) ==
  IF Slice(data, 0, 4) \notin {kWOZ1, kWOZ2, kMOOF} THEN "WozHeaderError_NoWOZMarker"
  ELSE IF Slice(data, 5, 8) # <<10, 13, 10>> THEN "WozHeaderError_NoLF"
  ELSE IF At(data, 4) # 255 THEN "WozHeaderError_NoFF"
  ELSE NoError

\* the exception _load_header raises, or NoError
_load_header(data) ==
  IF Slice(data, 0, 4) \notin {kWOZ1, kWOZ2, kMOOF} THEN "WozHeaderError_NoWOZMarker"
  ELSE IF At(data, 4) # 255 THEN "WozHeaderError_NoFF"
  ELSE IF Slice(data, 5, 8) # <<10, 13, 10>> THEN "WozHeaderError_NoLF"
  ELSE NoError

\* lines 191-200: reset, the 8 header bytes and the 4 CRC bytes.
\* _load_header sets image_type once the marker is one of the three, before
\* its tests of the bytes 4 to 7
load_header(s) ==
  LET header_raw == Read(s.stream, 0, 8)
      crc_raw == Read(s.stream, 8, 4)
      typed == [s EXCEPT !.img = [reset EXCEPT !.image_type = Slice(header_raw, 0, 4)]]
  IN IF Len(header_raw) # 8 THEN Throw(s, "WozEOFError")
     ELSE IF _load_header(header_raw) = "WozHeaderError_NoWOZMarker"
     THEN Throw(s, _load_header(header_raw))
     ELSE IF _load_header(header_raw) # NoError THEN Throw(typed, _load_header(header_raw))
     ELSE IF Len(crc_raw) # 4 THEN Throw(typed, "WozEOFError")
     ELSE [typed EXCEPT !.pos = 12, !.stage = "chunks", !.crc_raw = crc_raw]

\* what a handler leaves behind: r.val is the value it has given to the
\* attribute of self, also when it raised part of the way; its exception,
\* r.err, ends load
loaded_info(t, r) ==
  IF Fail(r) THEN Throw([t EXCEPT !.img.info = r.val], r.err)
  ELSE [t EXCEPT !.img.info = r.val, !.seen_info = TRUE]
loaded_trks(t, r) ==
  IF Fail(r) THEN Throw([t EXCEPT !.img.tracks = r.val], r.err)
  ELSE [t EXCEPT !.img.tracks = r.val]
loaded_meta(t, r) ==
  IF Fail(r) THEN Throw([t EXCEPT !.img.meta = r.val], r.err)
  ELSE [t EXCEPT !.img.meta = r.val]

\* load_dispatch without the test that INFO was seen
load_dispatch_noinfo(s, t, chunk_id, chunk_size, data) ==
  IF chunk_id = kINFO
  THEN (IF chunk_size # 60 THEN Throw(t, "WozINFOFormatError")
        ELSE loaded_info(t, _load_info(s.img.image_type, s.img.info, data)))
  ELSE IF chunk_id = kTMAP
  THEN (IF chunk_size # 160 THEN Throw(t, "WozTMAPFormatError")
        ELSE [t EXCEPT !.img.tmap = _load_tmap(data), !.seen_tmap = TRUE])
  ELSE IF ~s.seen_tmap THEN Throw(t, "WozTMAPFormatError_MissingTMAPChunk")
  ELSE IF chunk_id = kTRKS
  THEN loaded_trks(t, _load_trks(s.img.image_type, s.img.tracks, data))
  ELSE IF chunk_id = kFLUX
  THEN (IF chunk_size # 160 THEN Throw(t, "WozFLUXFormatError")
        ELSE [t EXCEPT !.img.flux = _load_flux(data)])
  ELSE IF chunk_id = kWRIT
  THEN [t EXCEPT !.img.writ = _load_writ(data)]
  ELSE IF chunk_id = kMETA
  THEN loaded_meta(t, _load_meta(s.img.meta, data))
  ELSE t

\* load_dispatch without the test that TMAP was seen
load_dispatch_notmap(s, t, chunk_id, chunk_size, data) ==
  IF chunk_id = kINFO
  THEN (IF chunk_size # 60 THEN Throw(t, "WozINFOFormatError")
        ELSE loaded_info(t, _load_info(s.img.image_type, s.img.info, data)))
  ELSE IF ~s.seen_info THEN Throw(t, "WozINFOFormatError_MissingINFOChunk")
  ELSE IF chunk_id = kTMAP
  THEN (IF chunk_size # 160 THEN Throw(t, "WozTMAPFormatError")
        ELSE [t EXCEPT !.img.tmap = _load_tmap(data), !.seen_tmap = TRUE])
  ELSE IF chunk_id = kTRKS
  THEN loaded_trks(t, _load_trks(s.img.image_type, s.img.tracks, data))
  ELSE IF chunk_id = kFLUX
  THEN (IF chunk_size # 160 THEN Throw(t, "WozFLUXFormatError")
        ELSE [t EXCEPT !.img.flux = _load_flux(data)])
  ELSE IF chunk_id = kWRIT
  THEN [t EXCEPT !.img.writ = _load_writ(data)]
  ELSE IF chunk_id = kMETA
  THEN loaded_meta(t, _load_meta(s.img.meta, data))
  ELSE t

\* load_dispatch taking every chunk that is not TRKS, FLUX or META for WRIT
load_dispatch_elsewrit(s, t, chunk_id, chunk_size, data) ==
  IF chunk_id = kINFO
  THEN (IF chunk_size # 60 THEN Throw(t, "WozINFOFormatError")
        ELSE loaded_info(t, _load_info(s.img.image_type, s.img.info, data)))
  ELSE IF ~s.seen_info THEN Throw(t, "WozINFOFormatError_MissingINFOChunk")
  ELSE IF chunk_id = kTMAP
  THEN (IF chunk_size # 160 THEN Throw(t, "WozTMAPFormatError")
        ELSE [t EXCEPT !.img.tmap = _load_tmap(data), !.seen_tmap = TRUE])
  ELSE IF ~s.seen_tmap THEN Throw(t, "WozTMAPFormatError_MissingTMAPChunk")
  ELSE IF chunk_id = kTRKS
  THEN loaded_trks(t, _load_trks(s.img.image_type, s.img.tracks, data))
  ELSE IF chunk_id = kFLUX
  THEN (IF chunk_size # 160 THEN Throw(t, "WozFLUXFormatError")
        ELSE [t EXCEPT !.img.flux = _load_flux(data)])
  ELSE IF chunk_id = kMETA
  THEN loaded_meta(t, _load_meta(s.img.meta, data))
  ELSE [t EXCEPT !.img.writ = _load_writ(data)]

\* lines 213-233: the dispatch on the chunk ID; s is the loader state before
\* the chunk was read, t the state after the three reads
load_dispatch(s, t, chunk_id, chunk_size, data) ==
  IF chunk_id = kINFO
  THEN (IF chunk_size # 60 THEN Throw(t, "WozINFOFormatError")
        ELSE loaded_info(t, _load_info(s.img.image_type, s.img.info, data)))
  ELSE IF ~s.seen_info THEN Throw(t, "WozINFOFormatError_MissingINFOChunk")
  ELSE IF chunk_id = kTMAP
  THEN (IF chunk_size # 160 THEN Throw(t, "WozTMAPFormatError")
        ELSE [t EXCEPT !.img.tmap = _load_tmap(data), !.seen_tmap = TRUE])
  ELSE IF ~s.seen_tmap THEN Throw(t, "WozTMAPFormatError_MissingTMAPChunk")
  ELSE IF chunk_id = kTRKS
  THEN loaded_trks(t, _load_trks(s.img.image_type, s.img.tracks, data))
  ELSE IF chunk_id = kFLUX
  THEN (IF chunk_size # 160 THEN Throw(t, "WozFLUXFormatError")
        ELSE [t EXCEPT !.img.flux = _load_flux(data)])
  ELSE IF chunk_id = kWRIT
  THEN [t EXCEPT !.img.writ = _load_writ(data)]
  ELSE IF chunk_id = kMETA
  THEN loaded_meta(t, _load_meta(s.img.meta, data))
  ELSE t

\* load_chunk that leaves the length of the chunk out of all_data
load_chunk_nosize(s) ==
  LET chunk_id == Read(s.stream, s.pos, 4)
      chunk_size_raw == Read(s.stream, s.pos + 4, 4)
      chunk_size == from_uint32(chunk_size_raw)
      data == Read(s.stream, s.pos + 8, chunk_size)
      t == [s EXCEPT !.pos = s.pos + 8 + chunk_size,
                     !.all_data = s.all_data \o chunk_id \o data]
  IN IF chunk_id = <<>> THEN [s EXCEPT !.stage = "check"]
     ELSE IF Len(chunk_id) # 4 THEN Throw(s, "WozEOFError")
     ELSE IF Len(chunk_size_raw) # 4 THEN Throw(s, "WozEOFError")
     ELSE IF Len(data) # chunk_size THEN Throw(s, "WozEOFError")
     ELSE load_dispatch(s, t, chunk_id, chunk_size, data)

\* load_chunk that takes a short chunk ID for the end of the stream
load_chunk_shortid(s) ==
  LET chunk_id == Read(s.stream, s.pos, 4)
      chunk_size_raw == Read(s.stream, s.pos + 4, 4)
      chunk_size == from_uint32(chunk_size_raw)
      data == Read(s.stream, s.pos + 8, chunk_size)
      t == [s EXCEPT !.pos = s.pos + 8 + chunk_size,
                     !.all_data = s.all_data \o chunk_id \o chunk_size_raw \o data]
  IN IF Len(chunk_id) # 4 THEN [s EXCEPT !.stage = "check"]
     ELSE IF Len(chunk_size_raw) # 4 THEN Throw(s, "WozEOFError")
     ELSE IF Len(data) # chunk_size THEN Throw(s, "WozEOFError")
     ELSE load_dispatch(s, t, chunk_id, chunk_size, data)

\* lines 202-212: one iteration of the while loop: the break at the end of
\* the stream, or the three reads of a chunk and then its dispatch
load_chunk(s) ==
  LET chunk_id == Read(s.stream, s.pos, 4)
      chunk_size_raw == Read(s.stream, s.pos + 4, 4)
      chunk_size == from_uint32(chunk_size_raw)
      data == Read(s.stream, s.pos + 8, chunk_size)
      t == [s EXCEPT !.pos = s.pos + 8 + chunk_size,
                     !.all_data = s.all_data \o chunk_id \o chunk_size_raw \o data]
  IN IF chunk_id = <<>> THEN [s EXCEPT !.stage = "check"]
     ELSE IF Len(chunk_id) # 4 THEN Throw(s, "WozEOFError")
     ELSE IF Len(chunk_size_raw) # 4 THEN Throw(s, "WozEOFError")
     ELSE IF Len(data) # chunk_size THEN Throw(s, "WozEOFError")
     ELSE load_dispatch(s, t, chunk_id, chunk_size, data)

\* BadEntry with > for >=
BadEntry_gt(map, tracks) ==
  \E n \in 1..Len(map) : map[n] # 255 /\ map[n] > Len(tracks)

\* some entry of a track map points to no track
BadEntry(map, tracks) ==
  \E n \in 1..Len(map) : map[n] # 255 /\ map[n] >= Len(tracks)

\* lines 234-241: the checks made after the loop
load_check(s) ==
  IF ~s.seen_info THEN Throw(s, "WozINFOFormatError_MissingINFOChunk")
  ELSE IF ~s.seen_tmap THEN Throw(s, "WozTMAPFormatError_MissingTMAPChunk")
  ELSE IF BadEntry(s.img.tmap, s.img.tracks) THEN Throw(s, "WozTMAPFormatError_BadTRKS")
  ELSE IF BadEntry(s.img.flux, s.img.tracks) THEN Throw(s, "WozFLUXFormatError_BadTRKS")
  ELSE IF s.crc_raw # <<0, 0, 0, 0>> /\ s.crc_raw # crc32(s.all_data)
       THEN Throw(s, "WozCRCError")
  ELSE [s EXCEPT !.stage = "done"]

LoadStep(s) ==
  IF s.stage = "header" THEN load_header(s)
  ELSE IF s.stage = "chunks" THEN load_chunk(s)
  ELSE load_check(s)

Halted(s) == s.err # NoError \/ s.stage = "done"

\* load run to its end from loader state s
RECURSIVE LoadRun(_)
LoadRun(s) ==
  IF Halted(s) THEN s ELSE LoadRun(LoadStep(s))

\* WozDiskImage(io.BytesIO(b))
load(b) == LoadRun(Loader(b))

(***************************************************************************)
(* WozDiskImage.dump.  Each part returns [err, val]: val is the chunk's    *)
(* bytes, err the exception raised (a Woz error class, or Python's         *)
(* ValueError, OverflowError, IndexError), else NoError.                   *)
(***************************************************************************)
\* to_uintN(v) with the OverflowError of int.to_bytes
ToUint(v, n) ==
  IF ~FitsUint(v, n) THEN Raise("OverflowError")
  ELSE Ok(IF n = 1 THEN to_uint8(v) ELSE IF n = 2 THEN to_uint16(v) ELSE to_uint32(v))

\* max([track.raw_count for track in [tracks[i] for i in map if i != 0xFF]])
MapCounts(map, tracks) ==
  {tracks[map[n] + 1].raw_count : n \in {m \in 1..Len(map) : map[m] # 255}}
SetMax(S) == CHOOSE x \in S : \A y \in S : y <= x

\* the first error of a sequence of [err, val] results, else NoError
RECURSIVE FirstErr(_)
FirstErr(rs) ==
  IF rs = <<>> THEN NoError
  ELSE IF Fail(rs[1]) THEN rs[1].err ELSE FirstErr(Tail(rs))

\* the bitfield _dump_info builds from the compatible_hardware list
RECURSIVE compatible_hardware_bitfield(_, _)
compatible_hardware_bitfield(list, offset) ==
  IF offset >= 9 THEN 0
  ELSE (IF InSeq(kRequiresMachine[offset + 1], list) THEN 2 ^ offset ELSE 0)
       + compatible_hardware_bitfield(list, offset + 1)

\* the INFO fields every image type writes: bytes 0..36 of the payload
_dump_info_common(img) ==
  LET info == img.info
      version_raw == ToUint(info.version, 1)
      disk_type_raw == ToUint(info.disk_type, 1)
      byte4 == IF img.image_type = kMOOF
               THEN ToUint(info.optimal_bit_timing, 1)
               ELSE Ok(to_uint8(BoolInt(info.cleaned)))
      creator_raw == encode_info_creator(info.creator)
      e == FirstErr(<<
             version_raw,
             IF Fail(version_raw) THEN version_raw
             ELSE validate_info_version(img.image_type, from_uint8(version_raw.val)),
             disk_type_raw,
             IF Fail(disk_type_raw) THEN disk_type_raw
             ELSE validate_info_disk_type(img.image_type, from_uint8(disk_type_raw.val)),
             validate_info_write_protected(BoolInt(info.write_protected)),
             validate_info_synchronized(BoolInt(info.synchronized)),
             byte4,
             IF Fail(byte4) THEN byte4
             ELSE IF img.image_type = kMOOF
             THEN validate_info_optimal_bit_timing(img.image_type, info, from_uint8(byte4.val))
             ELSE validate_info_cleaned(from_uint8(byte4.val)),
             creator_raw >>)
  IN IF e # NoError THEN Raise(e)
     ELSE Ok(kINFO \o to_uint32(60) \o version_raw.val \o disk_type_raw.val
             \o to_uint8(BoolInt(info.write_protected))
             \o to_uint8(BoolInt(info.synchronized))
             \o byte4.val \o creator_raw.val)

\* lines 512-528: largest_track, flux_block, largest_flux_track
_dump_info_largest(img, tmap_trks_len) ==
  LET bad_tmap == \E n \in 1..Len(img.tmap) :
                     img.tmap[n] # 255 /\ img.tmap[n] >= Len(img.tracks)
      bit_counts == MapCounts(img.tmap, img.tracks)
      largest_block_count ==
        IF img.tracks # <<>> THEN (((SetMax(bit_counts) + 7) \div 8) + 511) \div 512 ELSE 0
      bad_flux == \E n \in 1..Len(img.flux) :
                     img.flux[n] # 255 /\ img.flux[n] >= Len(img.tracks)
      flux_counts == MapCounts(img.flux, img.tracks)
      flux_block == IF img.flux # <<>> THEN (tmap_trks_len + 511) \div 512 ELSE 0
      largest_flux_block_count ==
        IF img.flux # <<>> THEN (SetMax(flux_counts) + 511) \div 512 ELSE 0
  IN IF img.tracks # <<>> /\ bad_tmap THEN Raise("IndexError")
     ELSE IF img.tracks # <<>> /\ bit_counts = {} THEN Raise("ValueError")
     ELSE IF ~FitsUint(largest_block_count, 2) THEN Raise("OverflowError")
     ELSE IF img.flux # <<>> /\ bad_flux THEN Raise("IndexError")
     ELSE IF img.flux # <<>> /\ flux_counts = {} THEN Raise("ValueError")
     ELSE IF ~FitsUint(flux_block, 2) THEN Raise("OverflowError")
     ELSE IF ~FitsUint(largest_flux_block_count, 2) THEN Raise("OverflowError")
     ELSE Ok(to_uint16(largest_block_count) \o to_uint16(flux_block)
             \o to_uint16(largest_flux_block_count))

\* lines 532-548: the WOZ2-only fields
_dump_info_woz2(img) ==
  LET info == img.info
      disk_sides_raw == ToUint(info.disk_sides, 1)
      boot_sector_format_raw == ToUint(info.boot_sector_format, 1)
      optimal_bit_timing_raw == ToUint(info.optimal_bit_timing, 1)
      compatible_hardware_raw ==
        to_uint16(compatible_hardware_bitfield(info.compatible_hardware, 0))
      required_ram_raw == ToUint(info.required_ram, 2)
      e == FirstErr(<<
             disk_sides_raw,
             IF Fail(disk_sides_raw) THEN disk_sides_raw
             ELSE validate_info_disk_sides(info, from_uint8(disk_sides_raw.val)),
             boot_sector_format_raw,
             IF Fail(boot_sector_format_raw) THEN boot_sector_format_raw
             ELSE validate_info_boot_sector_format(info, from_uint8(boot_sector_format_raw.val)),
             optimal_bit_timing_raw,
             IF Fail(optimal_bit_timing_raw) THEN optimal_bit_timing_raw
             ELSE validate_info_optimal_bit_timing(img.image_type, info,
                                                   from_uint8(optimal_bit_timing_raw.val)),
             required_ram_raw >>)
  IN IF e # NoError THEN Raise(e)
     ELSE Ok(disk_sides_raw.val \o boot_sector_format_raw.val
             \o optimal_bit_timing_raw.val \o compatible_hardware_raw
             \o required_ram_raw.val)

\* the INFO chunk from its parts: WOZ1 pads the common fields to 60 bytes,
\* WOZ2 and MOOF add their own fields and the largest track
_dump_info_join(img, common, largest, mid) ==
  IF Fail(common) THEN common
  ELSE IF img.image_type = kWOZ1 THEN Ok(common.val \o Repeat(0, 23))
  ELSE IF Fail(largest) THEN largest
  ELSE IF Fail(mid) THEN mid
  ELSE Ok(LJust(common.val \o mid.val \o largest.val, 68, 0))

\* WozDiskImage._dump_info(tmap_trks_len): the INFO chunk, or the error raised
_dump_info(img, tmap_trks_len) ==
  _dump_info_join(img, _dump_info_common(img),
                  _dump_info_largest(img, tmap_trks_len),
                  IF img.image_type = kMOOF THEN Ok(<<0>>) ELSE _dump_info_woz2(img))

\* bytes(self.tmap) raises ValueError for an entry outside range(256)
_dump_tmap(img) ==
  IF \E n \in 1..Len(img.tmap) : img.tmap[n] \notin 0..255 THEN Raise("ValueError")
  ELSE Ok(kTMAP \o to_uint32(160) \o img.tmap)

_dump_flux(img) ==
  IF img.flux = <<>> THEN Ok(<<>>)
  ELSE IF \E n \in 1..Len(img.flux) : img.flux[n] \notin 0..255 THEN Raise("ValueError")
  ELSE Ok(kFLUX \o to_uint32(160) \o img.flux)

\* the loop of _dump_trks_v1 from track n on
RECURSIVE _dump_trks_v1_tracks(_, _)
_dump_trks_v1_tracks(tracks, n) ==
  IF n > Len(tracks) THEN Ok(<<>>)
  ELSE LET track == tracks[n]
           rest == _dump_trks_v1_tracks(tracks, n + 1)
       IN IF ~FitsUint(Len(track.raw_bytes), 2) THEN Raise("OverflowError")
          ELSE IF ~FitsUint(track.raw_count, 2) THEN Raise("OverflowError")
          ELSE IF Fail(rest) THEN rest
          ELSE Ok(track.raw_bytes
                  \o Repeat(0, 6646 - Len(track.raw_bytes))
                  \o to_uint16(Len(track.raw_bytes))
                  \o to_uint16(track.raw_count)
                  \o <<255, 255>> \o <<255>> \o <<255>> \o <<0, 0>>
                  \o rest.val)

_dump_trks_v1(img) ==
  LET chunk_size == Len(img.tracks) * 6656
      body == _dump_trks_v1_tracks(img.tracks, 1)
  IN IF Fail(body) THEN body
     ELSE Ok(kTRKS \o to_uint32(chunk_size) \o body.val)

\* track.raw_bytes padded to a multiple of 512
PaddedBytes(raw_bytes) ==
  IF Len(raw_bytes) % 512 # 0
  THEN raw_bytes \o Repeat(0, 512 - (Len(raw_bytes) % 512))
  ELSE raw_bytes

\* the first loop of _dump_trks_v2 from track n on: [trk_chunk, bits_chunk]
RECURSIVE _dump_trks_v2_tracks(_, _, _)
_dump_trks_v2_tracks(tracks, n, starting_block) ==
  IF n > Len(tracks) THEN Ok([trk_chunk |-> <<>>, bits_chunk |-> <<>>])
  ELSE LET track == tracks[n]
           padded_bytes == PaddedBytes(track.raw_bytes)
           block_size == Len(padded_bytes) \div 512
           rest == _dump_trks_v2_tracks(tracks, n + 1, starting_block + block_size)
       IN IF ~FitsUint(starting_block, 2) THEN Raise("OverflowError")
          ELSE IF ~FitsUint(block_size, 2) THEN Raise("OverflowError")
          ELSE IF ~FitsUint(track.raw_count, 4) THEN Raise("OverflowError")
          ELSE IF Fail(rest) THEN rest
          ELSE Ok([trk_chunk |-> to_uint16(starting_block) \o to_uint16(block_size)
                                 \o to_uint32(track.raw_count) \o rest.val.trk_chunk,
                   bits_chunk |-> padded_bytes \o rest.val.bits_chunk])

_dump_trks_v2(img) ==
  LET r == _dump_trks_v2_tracks(img.tracks, 1, 3)
  IN IF Fail(r) THEN r
     ELSE LET trk_chunk == r.val.trk_chunk
                           \o Repeat(0, 8 * (160 - Len(img.tracks)))
              bits_chunk == r.val.bits_chunk
          IN Ok(kTRKS \o to_uint32(Len(trk_chunk) + Len(bits_chunk))
                \o trk_chunk \o bits_chunk)

_dump_trks(img) ==
  IF img.image_type = kWOZ1 THEN _dump_trks_v1(img) ELSE _dump_trks_v2(img)

_dump_writ(img) ==
  IF img.writ.present /\ img.writ.data # <<>>
  THEN Ok(kWRIT \o to_uint32(Len(img.writ.data)) \o img.writ.data)
  ELSE Ok(<<>>)

\* the validations _dump_meta makes on the entries from entry n on: its
\* values, then the key's own rule; the first error raised, if any
RECURSIVE _dump_meta_err(_, _)
_dump_meta_err(meta, n) ==
  IF n > Len(meta) THEN NoError
  ELSE IF \E m \in 1..Len(meta[n].vals) : validate_metadata_value(meta[n].vals[m]) # NoError
  THEN "WozMETAFormatError_BadValue"
  ELSE IF validate_metadata_key(meta[n].key, meta[n].vals) # NoError
  THEN validate_metadata_key(meta[n].key, meta[n].vals)
  ELSE _dump_meta_err(meta, n + 1)

_dump_meta(img) ==
  IF img.meta = <<>> THEN Ok(<<>>)
  ELSE IF _dump_meta_err(img.meta, 1) # NoError THEN Raise(_dump_meta_err(img.meta, 1))
  ELSE LET lines == [n \in 1..Len(img.meta) |->
                       Utf8Encode(img.meta[n].key) \o <<9>>
                       \o Utf8Encode(Join(img.meta[n].vals, 124))]
           data == Join(lines, 10) \o <<10>>
       IN Ok(kMETA \o to_uint32(Len(data)) \o data)

\* the 12 header bytes: the magic, FF 0A 0D 0A and the CRC
_dump_head(img, crc) == img.image_type \o <<255, 10, 13, 10>> \o crc

\* lines 479-481: crc32 of the joined chunks, then the header before them
dump_crc(img, body) == Ok(_dump_head(img, crc32(body)) \o body)

\* lines 473-478: the chunks made after TMAP and TRKS, in the order in which
\* dump makes them, each of which may raise
dump_join(img, raw_info, raw_tmap, raw_trks, raw_flux, raw_meta) ==
  IF Fail(raw_info) THEN raw_info
  ELSE IF Fail(raw_flux) THEN raw_flux
  ELSE IF Fail(raw_meta) THEN raw_meta
  ELSE dump_crc(img, raw_info.val \o raw_tmap.val \o raw_trks.val \o raw_flux.val
                     \o _dump_writ(img).val \o raw_meta.val)

\* lines 471-473: _dump_info is given the chunks _dump_tmap and _dump_trks made
dump_chunks(img, raw_tmap, raw_trks) ==
  IF Fail(raw_tmap) THEN raw_tmap
  ELSE IF Fail(raw_trks) THEN raw_trks
  ELSE dump_join(img, _dump_info(img, Len(raw_tmap.val) + Len(raw_trks.val)),
                 raw_tmap, raw_trks, _dump_flux(img), _dump_meta(img))

\* WozDiskImage.dump: [err, val], val the bytes of the file
dump(img) == dump_chunks(img, _dump_tmap(img), _dump_trks(img))

(***************************************************************************)
(* The track operations of WozDiskImage.  A track number is a float; the   *)
(* numbers used here are the multiples of 1/8, each given as its number    *)
(* of eighths (320 is track 40.0, 1 is track 0.125).                       *)
(***************************************************************************)
\* as_integer_ratio()[1] is the denominator of the reduced fraction and
\* int(track_num * 4) is half the number of eighths
track_num_to_half_phase(track_num) ==
  LET denominator == IF track_num % 8 = 0 THEN 1
                     ELSE IF track_num % 4 = 0 THEN 2
                     ELSE IF track_num % 2 = 0 THEN 4 ELSE 8
  IN IF track_num < 0 \/ track_num > 320 \/ denominator \notin {1, 2, 4}
     THEN Raise("WozError")
     ELSE Ok(track_num \div 2)

\* clean that adjusts the entries 0xFF of tmap and flux like the others
clean_noff(img) ==
  LET RECURSIVE loop(_, _)
      loop(d, i) ==
        IF i >= Len(d.tracks) THEN d
        ELSE IF ~InSeq(i, d.tmap) /\ ~InSeq(i, d.flux)
        THEN loop([d EXCEPT
                     !.tracks = SubSeq(d.tracks, 1, i) \o SubSeq(d.tracks, i + 2, Len(d.tracks)),
                     !.tmap = [a \in 1..Len(d.tmap) |->
                                 IF d.tmap[a] >= i
                                 THEN d.tmap[a] - 1 ELSE d.tmap[a]],
                     !.flux = [a \in 1..Len(d.flux) |->
                                 IF d.flux[a] >= i
                                 THEN d.flux[a] - 1 ELSE d.flux[a]]],
                  i)
        ELSE loop(d, i + 1)
  IN loop(img, 0)

\* clean: the while loop over i, from i = 0
clean(img) ==
  LET RECURSIVE loop(_, _)
      loop(d, i) ==
        IF i >= Len(d.tracks) THEN d
        ELSE IF ~InSeq(i, d.tmap) /\ ~InSeq(i, d.flux)
        THEN loop([d EXCEPT
                     !.tracks = SubSeq(d.tracks, 1, i) \o SubSeq(d.tracks, i + 2, Len(d.tracks)),
                     !.tmap = [a \in 1..Len(d.tmap) |->
                                 IF d.tmap[a] >= i /\ d.tmap[a] # 255
                                 THEN d.tmap[a] - 1 ELSE d.tmap[a]],
                     !.flux = [a \in 1..Len(d.flux) |->
                                 IF d.flux[a] >= i /\ d.flux[a] # 255
                                 THEN d.flux[a] - 1 ELSE d.flux[a]]],
                  i)
        ELSE loop(d, i + 1)
  IN loop(img, 0)

\* add that takes the number of tracks after the append for the index
add_next(img, half_phase, track) ==
  LET trk_id == Len(img.tracks) + 1
      appended == [img EXCEPT !.tracks = Append(img.tracks, track)]
  IN IF half_phase >= Len(img.tmap) THEN [err |-> "IndexError", val |-> appended]
     ELSE Ok([appended EXCEPT
                !.tmap = [a \in 1..Len(img.tmap) |->
                            IF \/ a = half_phase + 1
                               \/ (half_phase # 0 /\ a = half_phase)
                               \/ (half_phase < 159 /\ a = half_phase + 2)
                            THEN trk_id ELSE img.tmap[a]]])

\* add that leaves the entry below half_phase alone
add_noleft(img, half_phase, track) ==
  LET trk_id == Len(img.tracks)
      appended == [img EXCEPT !.tracks = Append(img.tracks, track)]
  IN IF half_phase >= Len(img.tmap) THEN [err |-> "IndexError", val |-> appended]
     ELSE Ok([appended EXCEPT
                !.tmap = [a \in 1..Len(img.tmap) |->
                            IF \/ a = half_phase + 1
                               \/ (half_phase < 159 /\ a = half_phase + 2)
                            THEN trk_id ELSE img.tmap[a]]])

\* add: [err, val] with val the image afterwards; the track is appended
\* before tmap[half_phase] is set, which raises IndexError beyond the end of
\* the list
add(img, half_phase, track) ==
  LET trk_id == Len(img.tracks)
      appended == [img EXCEPT !.tracks = Append(img.tracks, track)]
  IN IF half_phase >= Len(img.tmap) THEN [err |-> "IndexError", val |-> appended]
     ELSE Ok([appended EXCEPT
                !.tmap = [a \in 1..Len(img.tmap) |->
                            IF \/ a = half_phase + 1
                               \/ (half_phase # 0 /\ a = half_phase)
                               \/ (half_phase < 159 /\ a = half_phase + 2)
                            THEN trk_id ELSE img.tmap[a]]])

\* remove: [err, val, res] with val the image afterwards and res the value
\* returned; tmap[half_phase] raises IndexError beyond the end of the list
remove(img, half_phase) ==
  IF half_phase >= Len(img.tmap)
  THEN [err |-> "IndexError", val |-> img, res |-> FALSE]
  ELSE IF img.tmap[half_phase + 1] = 255
  THEN [err |-> NoError, val |-> img, res |-> FALSE]
  ELSE [err |-> NoError, val |-> clean([img EXCEPT !.tmap[half_phase + 1] = 255]),
        res |-> TRUE]

\* seek: [err, val] with val = <<track>> for a Track and <<>> for None
seek(img, track_num) ==
  LET half_phase == track_num_to_half_phase(track_num)
      at(list, index) == IF index >= Len(list) THEN Raise("IndexError")
                         ELSE Ok(list[index + 1])
  IN IF Fail(half_phase) THEN half_phase
     ELSE LET trk_id == at(img.tmap, half_phase.val)
          IN IF Fail(trk_id) THEN trk_id
             ELSE IF trk_id.val # 255
             THEN (IF Fail(at(img.tracks, trk_id.val)) THEN Raise("IndexError")
                   ELSE Ok(<<at(img.tracks, trk_id.val).val>>))
             ELSE IF img.info.version >= 3 /\ img.flux # <<>>
             THEN LET flux_id == at(img.flux, half_phase.val)
                  IN IF Fail(flux_id) THEN flux_id
                     ELSE IF flux_id.val # 255
                     THEN (IF Fail(at(img.tracks, flux_id.val)) THEN Raise("IndexError")
                           ELSE Ok(<<at(img.tracks, flux_id.val).val>>))
                     ELSE Ok(<<>>)
             ELSE Ok(<<>>)

(***************************************************************************)
(* The command line: the strings the flags of edit give are sequences of   *)
(* ASCII characters.                                                       *)
(***************************************************************************)
\* from_intish on a str: int(v) takes white space around an optional sign
\* and decimal digits, with single underscores between digits.  The white
\* space of int() in an ASCII string is tab, LF, VT, FF, CR and space: it
\* does not take the separators 0x1C to 0x1F, which str.strip() removes
from_intish(v, errorClass) ==
  LET IsDigit(c) == c >= 48 /\ c <= 57
      IsSpace(c) == (c >= 9 /\ c <= 13) \/ c = 32
      RECURSIVE lstrip(_), rstrip(_)
      lstrip(s) == IF s # <<>> /\ IsSpace(s[1]) THEN lstrip(Tail(s)) ELSE s
      rstrip(s) == IF s # <<>> /\ IsSpace(s[Len(s)])
                   THEN rstrip(SubSeq(s, 1, Len(s) - 1)) ELSE s
      RECURSIVE value(_, _, _)
      value(digits, acc, i) == IF i > Len(digits) THEN acc
                               ELSE value(digits, 10 * acc + (digits[i] - 48), i + 1)
      \* body is s without its sign
      int(s, body) ==
        IF \/ body = <<>>
           \/ \E i \in 1..Len(body) :
                /\ ~IsDigit(body[i])
                /\ ~(/\ body[i] = 95 /\ i > 1 /\ i < Len(body)
                     /\ IsDigit(body[i - 1]) /\ IsDigit(body[i + 1]))
        THEN Raise(errorClass)
        ELSE IF s[1] = 45 THEN Ok(0 - value(SelectSeq(body, IsDigit), 0, 1))
        ELSE Ok(value(SelectSeq(body, IsDigit), 0, 1))
      stripped(s) == int(s, IF s # <<>> /\ s[1] \in {43, 45} THEN Tail(s) ELSE s)
  IN stripped(rstrip(lstrip(v)))

\* is_booleanish and from_booleanish on a str
from_booleanish_str(v, errorClass) ==
  LET lower == [i \in 1..Len(v) |-> IF v[i] >= 65 /\ v[i] <= 90 THEN v[i] + 32 ELSE v[i]]
      true == <<116, 114, 117, 101>>
      false == <<102, 97, 108, 115, 101>>
      yes == <<121, 101, 115>>
      no == <<110, 111>>
      as_int == from_intish(v, "ValueError")
      booleanish == IF Fail(as_int)
                    THEN lower \in {true, false, yes, no, <<49>>, <<48>>}
                    ELSE is_booleanish(as_int.val)
  IN IF ~booleanish THEN Raise(errorClass)
     ELSE Ok(lower \in {true, yes, <<49>>})

\* _CommandEdit.update with disk_type updated in the loop of the other fields
_CommandEdit_update_two_loops(img, info, meta) ==
  LET checked(r, validated(_)) == IF Fail(r) THEN r ELSE validated(r.val)
      \* what a flag gives: when r is an exception, the image d that the
      \* flags before it have left
      raised(d, r) == IF Fail(r) THEN [err |-> r.err, val |-> d] ELSE r
      set(d, k, r) == IF Fail(r) THEN r ELSE Ok([d EXCEPT !.info[k] = r.val])
      \* 1st update version info field: v is from_intish of the value
      version(d, v) ==
        IF Fail(v) THEN v
        ELSE IF v.val \notin {1, 2, 3} THEN Raise("WozINFOFormatError_BadVersion")
        ELSE Ok([d EXCEPT !.image_type = IF v.val = 1 THEN kWOZ1 ELSE kWOZ2,
                          !.info.version = v.val])
      \* 2nd update disk_type info field: new_disk_type is validate_info_disk_type
      \* of the value; disk_type is set before kDefaultBitTiming is indexed
      disk_type(d, new_disk_type) ==
        IF Fail(new_disk_type) THEN raised(d, new_disk_type)
        ELSE IF d.info.disk_type = new_disk_type.val THEN Ok(d)
        ELSE IF new_disk_type.val >= Len(kDefaultBitTiming)
        THEN [err |-> "IndexError",
              val |-> [d EXCEPT !.info.disk_type = new_disk_type.val]]
        ELSE Ok([d EXCEPT !.info.disk_type = new_disk_type.val,
                          !.info.optimal_bit_timing =
                             kDefaultBitTiming[new_disk_type.val + 1]])
      \* then update all other info fields: those of every file
      common(d, k, v) ==
        IF k = "write_protected"
        THEN set(d, k, from_booleanish_str(v, "WozINFOFormatError_BadWriteProtected"))
        ELSE IF k = "synchronized"
        THEN set(d, k, from_booleanish_str(v, "WozINFOFormatError_BadSynchronized"))
        ELSE IF k = "cleaned"
        THEN set(d, k, from_booleanish_str(v, "WozINFOFormatError_BadCleaned"))
        ELSE IF k = "creator"
        THEN set(d, k, checked(encode_info_creator(v), validate_info_creator))
        ELSE Ok(d)
      \* remaining fields are only recognized in WOZ2 files (v2+ INFO chunk);
      \* r is what the fields of every file gave
      woz2(d, k, v, r) ==
        IF Fail(r) \/ d.info.version = 1 THEN r
        ELSE IF k = "disk_sides"
        THEN set(d, k, checked(from_intish(v, "WozINFOFormatError_BadDiskSides"),
                               LAMBDA t : validate_info_disk_sides(d.info, t)))
        ELSE IF k = "boot_sector_format"
        THEN set(d, k, checked(from_intish(v, "WozINFOFormatError_BadBootSectorFormat"),
                               LAMBDA t : validate_info_boot_sector_format(d.info, t)))
        ELSE IF k = "optimal_bit_timing"
        THEN set(d, k, checked(from_intish(v, "WozINFOFormatError_BadOptimalBitTiming"),
                               LAMBDA t : validate_info_optimal_bit_timing(d.image_type,
                                                                           d.info, t)))
        ELSE IF k = "required_ram"
        THEN set(d, k, from_intish(IF v # <<>> /\ v[Len(v)] \in {75, 107}
                                   THEN SubSeq(v, 1, Len(v) - 1) ELSE v,
                                   "WozINFOFormatError_BadRAM"))
        ELSE IF k = "compatible_hardware"
        THEN (IF \E m \in 1..Len(Split(v, 124)) :
                   validate_metadata_requires_machine(Split(v, 124)[m]) # NoError
              THEN Raise("WozMETAFormatError_BadMachine")
              ELSE set(d, k, Ok(Split(v, 124))))
        ELSE r
      \* the flag [k, v] in the 1st, 2nd or 3rd loop over the --info flags
      apply(pass, d, k, v) ==
        IF pass = 1
        THEN (IF k # "version" THEN Ok(d)
              ELSE raised(d, version(d, from_intish(v, "WozINFOFormatError_BadVersion"))))
        ELSE IF pass = 2 \/ k = "disk_type"
        THEN (IF pass = 2 THEN Ok(d)
              ELSE disk_type(d, checked(from_intish(v, "WozINFOFormatError_BadDiskType"),
                                        LAMBDA t : validate_info_disk_type(d.image_type, t))))
        ELSE IF k \in {"version", "disk_type"} THEN Ok(d)
        ELSE raised(d, woz2(d, k, v, common(d, k, v)))
      \* add all new metadata fields, and delete empty ones: v is the value
      \* split at "|", kept as a str when that gives one part
      put(d, k, v) ==
        IF v = << <<>> >> THEN SelectSeq(d, LAMBDA e : e.key # k)
        ELSE IF \E m \in 1..Len(d) : d[m].key = k
        THEN [m \in 1..Len(d) |-> IF d[m].key = k
                                  THEN [key |-> k, str |-> (Len(v) = 1), vals |-> v]
                                  ELSE d[m]]
        ELSE Append(d, [key |-> k, str |-> (Len(v) = 1), vals |-> v])
      RECURSIVE loop(_, _, _), metas(_, _)
      metas(d, n) ==
        IF n > Len(meta) THEN d
        ELSE metas(put(d, meta[n].k, Split(meta[n].v, 124)), n + 1)
      next(r, pass, n) == IF Fail(r) THEN r ELSE loop(pass, r.val, n + 1)
      loop(pass, d, n) ==
        IF n <= Len(info) THEN next(apply(pass, d, info[n].k, info[n].v), pass, n)
        ELSE IF pass < 3 THEN loop(pass + 1, d, 1)
        ELSE Ok([d EXCEPT !.meta = metas(d.meta, 1)])
  IN loop(1, img, 1)

\* _CommandEdit.update: info is the list of the --info flags, each split at
\* its first ":" into [k, v] (k a name, v a str), and meta the list of the
\* --meta flags as [k, v] (two str).  [err, val]: val the image afterwards
_CommandEdit_update(img, info, meta) ==
  LET checked(r, validated(_)) == IF Fail(r) THEN r ELSE validated(r.val)
      \* what a flag gives: when r is an exception, the image d that the
      \* flags before it have left
      raised(d, r) == IF Fail(r) THEN [err |-> r.err, val |-> d] ELSE r
      set(d, k, r) == IF Fail(r) THEN r ELSE Ok([d EXCEPT !.info[k] = r.val])
      \* 1st update version info field: v is from_intish of the value
      version(d, v) ==
        IF Fail(v) THEN v
        ELSE IF v.val \notin {1, 2, 3} THEN Raise("WozINFOFormatError_BadVersion")
        ELSE Ok([d EXCEPT !.image_type = IF v.val = 1 THEN kWOZ1 ELSE kWOZ2,
                          !.info.version = v.val])
      \* 2nd update disk_type info field: new_disk_type is validate_info_disk_type
      \* of the value; disk_type is set before kDefaultBitTiming is indexed
      disk_type(d, new_disk_type) ==
        IF Fail(new_disk_type) THEN raised(d, new_disk_type)
        ELSE IF d.info.disk_type = new_disk_type.val THEN Ok(d)
        ELSE IF new_disk_type.val >= Len(kDefaultBitTiming)
        THEN [err |-> "IndexError",
              val |-> [d EXCEPT !.info.disk_type = new_disk_type.val]]
        ELSE Ok([d EXCEPT !.info.disk_type = new_disk_type.val,
                          !.info.optimal_bit_timing =
                             kDefaultBitTiming[new_disk_type.val + 1]])
      \* then update all other info fields: those of every file
      common(d, k, v) ==
        IF k = "write_protected"
        THEN set(d, k, from_booleanish_str(v, "WozINFOFormatError_BadWriteProtected"))
        ELSE IF k = "synchronized"
        THEN set(d, k, from_booleanish_str(v, "WozINFOFormatError_BadSynchronized"))
        ELSE IF k = "cleaned"
        THEN set(d, k, from_booleanish_str(v, "WozINFOFormatError_BadCleaned"))
        ELSE IF k = "creator"
        THEN set(d, k, checked(encode_info_creator(v), validate_info_creator))
        ELSE Ok(d)
      \* remaining fields are only recognized in WOZ2 files (v2+ INFO chunk);
      \* r is what the fields of every file gave
      woz2(d, k, v, r) ==
        IF Fail(r) \/ d.info.version = 1 THEN r
        ELSE IF k = "disk_sides"
        THEN set(d, k, checked(from_intish(v, "WozINFOFormatError_BadDiskSides"),
                               LAMBDA t : validate_info_disk_sides(d.info, t)))
        ELSE IF k = "boot_sector_format"
        THEN set(d, k, checked(from_intish(v, "WozINFOFormatError_BadBootSectorFormat"),
                               LAMBDA t : validate_info_boot_sector_format(d.info, t)))
        ELSE IF k = "optimal_bit_timing"
        THEN set(d, k, checked(from_intish(v, "WozINFOFormatError_BadOptimalBitTiming"),
                               LAMBDA t : validate_info_optimal_bit_timing(d.image_type,
                                                                           d.info, t)))
        ELSE IF k = "required_ram"
        THEN set(d, k, from_intish(IF v # <<>> /\ v[Len(v)] \in {75, 107}
                                   THEN SubSeq(v, 1, Len(v) - 1) ELSE v,
                                   "WozINFOFormatError_BadRAM"))
        ELSE IF k = "compatible_hardware"
        THEN (IF \E m \in 1..Len(Split(v, 124)) :
                   validate_metadata_requires_machine(Split(v, 124)[m]) # NoError
              THEN Raise("WozMETAFormatError_BadMachine")
              ELSE set(d, k, Ok(Split(v, 124))))
        ELSE r
      \* the flag [k, v] in the 1st, 2nd or 3rd loop over the --info flags
      apply(pass, d, k, v) ==
        IF pass = 1
        THEN (IF k # "version" THEN Ok(d)
              ELSE raised(d, version(d, from_intish(v, "WozINFOFormatError_BadVersion"))))
        ELSE IF pass = 2
        THEN (IF k # "disk_type" THEN Ok(d)
              ELSE disk_type(d, checked(from_intish(v, "WozINFOFormatError_BadDiskType"),
                                        LAMBDA t : validate_info_disk_type(d.image_type, t))))
        ELSE IF k \in {"version", "disk_type"} THEN Ok(d)
        ELSE raised(d, woz2(d, k, v, common(d, k, v)))
      \* add all new metadata fields, and delete empty ones: v is the value
      \* split at "|", kept as a str when that gives one part
      put(d, k, v) ==
        IF v = << <<>> >> THEN SelectSeq(d, LAMBDA e : e.key # k)
        ELSE IF \E m \in 1..Len(d) : d[m].key = k
        THEN [m \in 1..Len(d) |-> IF d[m].key = k
                                  THEN [key |-> k, str |-> (Len(v) = 1), vals |-> v]
                                  ELSE d[m]]
        ELSE Append(d, [key |-> k, str |-> (Len(v) = 1), vals |-> v])
      RECURSIVE loop(_, _, _), metas(_, _)
      metas(d, n) ==
        IF n > Len(meta) THEN d
        ELSE metas(put(d, meta[n].k, Split(meta[n].v, 124)), n + 1)
      next(r, pass, n) == IF Fail(r) THEN r ELSE loop(pass, r.val, n + 1)
      loop(pass, d, n) ==
        IF n <= Len(info) THEN next(apply(pass, d, info[n].k, info[n].v), pass, n)
        ELSE IF pass < 3 THEN loop(pass + 1, d, 1)
        ELSE Ok([d EXCEPT !.meta = metas(d.meta, 1)])
  IN loop(1, img, 1)

(***************************************************************************)
(* moofimage.py: the sectors of a 3.5-inch disk.  A track is read through  *)
(* a cursor, bit_index, a bit number below its raw_count; the bits are     *)
(* those of raw_bytes, the high bit of each byte first.  src/wozardry.py   *)
(* holds no code of the cursor (Track has raw_bytes and raw_count only):   *)
(* nibble and find_this_not_that follow section 4.1 of the specification.  *)
(***************************************************************************)
\* MoofRWTS.kDefaultNibbleTranslationTable16: the disk nibbles of the values
\* 0x00 to 0x3F, in this order
kDefaultNibbleTranslationTable16 ==
  <<150, 151, 154, 155, 157, 158, 159, 166, 167, 171, 172, 173, 174, 175, 178, 179,
    180, 181, 182, 183, 185, 186, 187, 188, 189, 190, 191, 203, 205, 206, 207, 211,
    214, 215, 217, 218, 219, 220, 221, 222, 223, 229, 230, 231, 233, 234, 235, 236,
    237, 238, 239, 242, 243, 244, 245, 246, 247, 249, 250, 251, 252, 253, 254, 255>>

\* Track.nibble: the next 8-bit value whose high bit is 1: zero bits are
\* skipped until a 1 is seen, which is the high bit, then 7 more bits are
\* read; the cursor wraps to 0 at raw_count.  Returns the value, the cursor
\* behind it and the number of bits taken.
nibble(track, bit_index) ==
  LET bit(i) == (track.raw_bytes[(i \div 8) + 1] \div (2 ^ (7 - (i % 8)))) % 2
      next(i) == (i + 1) % track.raw_count
      RECURSIVE skip(_, _), read(_, _, _, _)
      read(i, k, acc, bits) ==
        IF k = 0 THEN [val |-> acc, bit_index |-> i, bits |-> bits]
        ELSE read(next(i), k - 1, 2 * acc + bit(i), bits + 1)
      skip(i, bits) == IF bit(i) = 1 THEN read(i, 8, 0, bits) ELSE skip(next(i), bits + 1)
  IN skip(bit_index, 0)

\* a loop of at most k turns: Turn applied to s until the state it gives has
\* halt set (in halves, for TLC to evaluate the first half before the other)
RECURSIVE Repeatedly(_, _, _)
Repeatedly(Turn(_), s, k) ==
  IF s.halt \/ k = 0 THEN s
  ELSE IF k = 1 THEN Turn(s)
  ELSE LET left == Repeatedly(Turn, s, k \div 2)
       IN IF left.halt THEN left ELSE Repeatedly(Turn, left, k - (k \div 2))

\* Track.find_this_not_that(good, bad): nibbles are read until the last ones
\* read are good (found) or are bad (not found), or more than two
\* revolutions have passed (not found); Track.find(sequence) is the same
\* with no bad sequence, here <<>>.  Returns found and the cursor.
find_this_not_that(track, bit_index, good, bad) ==
  LET ends(seen, sequence) ==
        SubSeq(seen, Len(seen) - Len(sequence) + 1, Len(seen)) = sequence
      check(n, seen, bits) ==
        [found |-> ends(seen, good), bit_index |-> n.bit_index, seen |-> seen,
         bits |-> bits + n.bits,
         halt |-> ends(seen, good) \/ (bad # <<>> /\ ends(seen, bad))]
      step(n, seen, bits) == check(n, seen \o <<n.val>>, bits)
      next(s) ==
        IF s.bits > 2 * track.raw_count THEN [s EXCEPT !.halt = TRUE]
        ELSE step(nibble(track, s.bit_index), Tail(s.seen), s.bits)
  IN Repeatedly(next,
                [found |-> FALSE, bit_index |-> bit_index,
                 seen |-> Repeat(0, IF Len(good) > Len(bad) THEN Len(good) ELSE Len(bad)),
                 bits |-> 0, halt |-> FALSE],
                (2 * track.raw_count) \div 8 + 2)

\* MoofRWTS._, called count times: the values of the next nibbles in the
\* translation table; a nibble that is not in the table raises KeyError,
\* with the cursor behind that nibble
_translated(track, bit_index, count) ==
  LET value(v) == (CHOOSE j \in 1..64 : kDefaultNibbleTranslationTable16[j] = v) - 1
      got(n, s) ==
        IF ~InSeq(n.val, kDefaultNibbleTranslationTable16)
        THEN [err |-> "KeyError", val |-> s.val, bit_index |-> n.bit_index, halt |-> TRUE]
        ELSE [err |-> NoError, val |-> Append(s.val, value(n.val)),
              bit_index |-> n.bit_index, halt |-> FALSE]
      next(s) == got(nibble(track, s.bit_index), s)
  IN Repeatedly(next, [err |-> NoError, val |-> <<>>, bit_index |-> bit_index,
                       halt |-> FALSE], count)

\* MoofRWTS.address_field_at_point: [err, val, bit_index], val the
\* MoofAddressField
address_field_at_point(track, bit_index) ==
  LET field(h0, sector_id, h2, volume, checksum) ==
        [valid |-> Xor8(Xor8(Xor8(h0, sector_id), h2), volume) = checksum,
         volume |-> volume,
         track_id |-> (h0 * 2) + ((h2 % 2) * 128) + ((h2 \div 32) % 2),
         sector_id |-> sector_id]
      made(r) ==
        IF Fail(r) THEN [err |-> r.err, val |-> <<>>, bit_index |-> r.bit_index]
        ELSE [err |-> NoError,
              val |-> field(r.val[1], r.val[2], r.val[3], r.val[4], r.val[5]),
              bit_index |-> r.bit_index]
  IN made(_translated(track, bit_index, 5))

\* MoofRWTS.verify_nibbles_at_point: as many nibbles as given are read, and
\* compared with them: [ok, bit_index]
verify_nibbles_at_point(track, bit_index, nibbles) ==
  LET RECURSIVE loop(_, _, _)
      got(n, found, k) == loop(n.bit_index, Append(found, n.val), k - 1)
      loop(i, found, k) ==
        IF k = 0 THEN [ok |-> (found = nibbles), found |-> found, bit_index |-> i]
        ELSE got(nibble(track, i), found, k)
  IN loop(bit_index, <<>>, Len(nibbles))

\* data_field_at_point with the three last nibbles taken for c1, c2, c3 in this order
data_field_at_point_c1_first(track, bit_index) ==
  LET state(c1, c2, c3, bytes) == [c1 |-> c1, c2 |-> c2, c3 |-> c3, bytes |-> bytes]
      byte2(c1, c2, c3, bytes, d2) ==
        state(c1 + Xor8(d2, c2), c2, c3, Append(bytes, Xor8(d2, c2)))
      carry_c2(c1, c2, c3, bytes, d2) ==
        IF c2 > 255 THEN byte2(c1 + 1, c2 % 256, c3, bytes, d2)
        ELSE byte2(c1, c2, c3, bytes, d2)
      byte1(c1, c2, c3, bytes, d1, d2, last) ==
        IF last THEN state(c1, c2 + Xor8(d1, c3), c3, Append(bytes, Xor8(d1, c3)))
        ELSE carry_c2(c1, c2 + Xor8(d1, c3), c3, Append(bytes, Xor8(d1, c3)), d2)
      carry_c3(c1, c2, c3, bytes, d1, d2, last) ==
        IF c3 > 255 THEN byte1(c1, c2 + 1, c3 % 256, bytes, d1, d2, last)
        ELSE byte1(c1, c2, c3, bytes, d1, d2, last)
      byte0(c1, c2, c3, bytes, d0, d1, d2, last) ==
        carry_c3(c1, c2, c3 + Xor8(d0, c1), Append(bytes, Xor8(d0, c1)), d1, d2, last)
      group(s, d0, d1, d2, last) ==
        IF (s.c1 % 256) * 2 > 255
        THEN byte0((s.c1 % 256) * 2 - 255, s.c2, s.c3 + 1, s.bytes, d0, d1, d2, last)
        ELSE byte0((s.c1 % 256) * 2, s.c2, s.c3, s.bytes, d0, d1, d2, last)
      gcr(n) ==
        LET next(t) ==
              [s |-> group(t.s, n[4 * t.g - 2] + ((n[4 * t.g - 3] \div 16) % 4) * 64,
                                n[4 * t.g - 1] + ((n[4 * t.g - 3] \div 4) % 4) * 64,
                                n[4 * t.g] + (n[4 * t.g - 3] % 4) * 64, t.g = 175),
               g |-> t.g + 1, halt |-> FALSE]
        IN Repeatedly(next, [s |-> state(0, 0, 0, <<>>), g |-> 1, halt |-> FALSE], 175).s
      field(sector_id, n, s, sums) ==
        [valid |-> /\ n[700] = ((s.c1 \div 64) % 4) + ((s.c2 \div 64) % 4) * 4
                                 + ((s.c3 \div 64) % 4) * 16
                   /\ sums[1] = s.c1 % 64
                   /\ sums[2] = s.c2 % 64
                   /\ sums[3] = s.c3 % 64,
         sector_id |-> sector_id,
         tags |-> SubSeq(s.bytes, 1, 12),
         data |-> SubSeq(s.bytes, 13, 524)]
      checked(r, s, sums) ==
        IF Fail(sums) THEN [err |-> sums.err, val |-> <<>>, bit_index |-> sums.bit_index]
        ELSE [err |-> NoError, val |-> field(r.val[1], Tail(r.val), s, sums.val),
              bit_index |-> sums.bit_index]
      decoded(r) ==
        IF Fail(r) THEN [err |-> r.err, val |-> <<>>, bit_index |-> r.bit_index]
        ELSE checked(r, gcr(Tail(r.val)),
                     _translated(track, r.bit_index, 3))
  IN decoded(_translated(track, bit_index, 701))

\* MoofRWTS.data_field_at_point: [err, val, bit_index], val the
\* MoofDataField.  gcr_generator is run for the 524 bytes asked of it: 174
\* groups, and the two first bytes of the last group.
data_field_at_point(track, bit_index) ==
  LET state(c1, c2, c3, bytes) == [c1 |-> c1, c2 |-> c2, c3 |-> c3, bytes |-> bytes]
      byte2(c1, c2, c3, bytes, d2) ==
        state(c1 + Xor8(d2, c2), c2, c3, Append(bytes, Xor8(d2, c2)))
      carry_c2(c1, c2, c3, bytes, d2) ==
        IF c2 > 255 THEN byte2(c1 + 1, c2 % 256, c3, bytes, d2)
        ELSE byte2(c1, c2, c3, bytes, d2)
      byte1(c1, c2, c3, bytes, d1, d2, last) ==
        IF last THEN state(c1, c2 + Xor8(d1, c3), c3, Append(bytes, Xor8(d1, c3)))
        ELSE carry_c2(c1, c2 + Xor8(d1, c3), c3, Append(bytes, Xor8(d1, c3)), d2)
      carry_c3(c1, c2, c3, bytes, d1, d2, last) ==
        IF c3 > 255 THEN byte1(c1, c2 + 1, c3 % 256, bytes, d1, d2, last)
        ELSE byte1(c1, c2, c3, bytes, d1, d2, last)
      byte0(c1, c2, c3, bytes, d0, d1, d2, last) ==
        carry_c3(c1, c2, c3 + Xor8(d0, c1), Append(bytes, Xor8(d0, c1)), d1, d2, last)
      group(s, d0, d1, d2, last) ==
        IF (s.c1 % 256) * 2 > 255
        THEN byte0((s.c1 % 256) * 2 - 255, s.c2, s.c3 + 1, s.bytes, d0, d1, d2, last)
        ELSE byte0((s.c1 % 256) * 2, s.c2, s.c3, s.bytes, d0, d1, d2, last)
      gcr(n) ==
        LET next(t) ==
              [s |-> group(t.s, n[4 * t.g - 2] + ((n[4 * t.g - 3] \div 16) % 4) * 64,
                                n[4 * t.g - 1] + ((n[4 * t.g - 3] \div 4) % 4) * 64,
                                n[4 * t.g] + (n[4 * t.g - 3] % 4) * 64, t.g = 175),
               g |-> t.g + 1, halt |-> FALSE]
        IN Repeatedly(next, [s |-> state(0, 0, 0, <<>>), g |-> 1, halt |-> FALSE], 175).s
      field(sector_id, n, s, sums) ==
        [valid |-> /\ n[700] = ((s.c1 \div 64) % 4) + ((s.c2 \div 64) % 4) * 4
                                 + ((s.c3 \div 64) % 4) * 16
                   /\ sums[1] = s.c3 % 64
                   /\ sums[2] = s.c2 % 64
                   /\ sums[3] = s.c1 % 64,
         sector_id |-> sector_id,
         tags |-> SubSeq(s.bytes, 1, 12),
         data |-> SubSeq(s.bytes, 13, 524)]
      checked(r, s, sums) ==
        IF Fail(sums) THEN [err |-> sums.err, val |-> <<>>, bit_index |-> sums.bit_index]
        ELSE [err |-> NoError, val |-> field(r.val[1], Tail(r.val), s, sums.val),
              bit_index |-> sums.bit_index]
      decoded(r) ==
        IF Fail(r) THEN [err |-> r.err, val |-> <<>>, bit_index |-> r.bit_index]
        ELSE checked(r, gcr(Tail(r.val)),
                     _translated(track, r.bit_index, 3))
  IN decoded(_translated(track, bit_index, 701))

(***************************************************************************)
(* Input files.  The files given to load are built the way the tests       *)
(* build theirs (test_wozardry.py: a header, then chunks), from the        *)
(* bounds below.                                                           *)
(***************************************************************************)
\* the TRKS chunks of the inputs hold 0..MaxTracks tracks
MaxTracks == 2
\* an inserted unknown chunk has a payload of 0 or MaxJunkLen bytes
MaxJunkLen == 3
\* a TRKS chunk put into a file holds 0..MaxBlocks blocks and its
\* descriptors have block counts 0..MaxBlocks
MaxBlocks == 2
\* a META chunk put into a file holds 0..MaxLines lines
MaxLines == 2
\* the scan of a track is followed while parse has logged fewer events
MaxEvents == 12
\* add, remove and clean are called at most MaxCalls times on an image
MaxCalls == 3
\* add_track is called until the image has MaxAdds tracks
MaxAdds == 257

NoCrc == <<0, 0, 0, 0>>

\* a file as the tests build it: the 12-byte header, with no CRC, then chunks
File(magic, chunks) == magic \o <<255, 10, 13, 10>> \o NoCrc \o chunks
Chunk(id, payload) == id \o to_uint32(Len(payload)) \o payload

\* the fields of a WOZ2 INFO chunk; the creator is "wozardry"
Info2 ==
  [ version |-> 2, disk_type |-> 1, write_protected |-> 0, synchronized |-> 0,
    byte4 |-> 0, creator |-> <<119, 111, 122, 97, 114, 100, 114, 121>>,
    disk_sides |-> 1, boot_sector_format |-> 0, optimal_bit_timing |-> 32,
    compatible_hardware |-> 0, required_ram |-> 0, largest_track |-> 0 ]

\* an INFO chunk, its 60-byte payload made from the fields
InfoChunk(f) ==
  Chunk(kINFO,
        LJust(<<f.version, f.disk_type, f.write_protected, f.synchronized, f.byte4>>
              \o LJust(f.creator, 32, 32)
              \o <<f.disk_sides, f.boot_sector_format, f.optimal_bit_timing>>
              \o to_uint16(f.compatible_hardware) \o to_uint16(f.required_ram)
              \o to_uint16(f.largest_track), 60, 0))

\* a TMAP or FLUX chunk whose first entries are given, the others 0xFF
MapChunk(id, entries) == Chunk(id, LJust(entries, 160, 255))

\* a WOZ2/MOOF TRKS chunk of n one-block tracks: track k (1-based) starts
\* at block 2 + k, has bit count 1000 * k and is filled with the byte 160 + k
TrksV2Chunk(n) ==
  Chunk(kTRKS,
        LJust([i \in 1..(8 * n) |->
                 LET k == ((i - 1) \div 8) + 1
                 IN (to_uint16(2 + k) \o to_uint16(1) \o to_uint32(1000 * k))[((i - 1) % 8) + 1]],
              1280, 0)
        \o [i \in 1..(512 * n) |-> 160 + ((i - 1) \div 512) + 1])

\* a WOZ2 TRKS chunk from the bytes of its first descriptors (starting_block
\* and block_count on 2 bytes each, bit_count on 4), then nblocks blocks of fill
TrksRawChunk(descriptors, nblocks, fill) ==
  Chunk(kTRKS, LJust(descriptors, 1280, 0) \o Repeat(fill, 512 * nblocks))

\* a WOZ1 TRKS chunk of one 6656-byte record
TrksV1Chunk(fill, bytes_used, count, splice_point, splice_bit_count) ==
  Chunk(kTRKS, Repeat(fill, kBitstreamLengthInBytes) \o to_uint16(bytes_used)
               \o to_uint16(count) \o to_uint16(splice_point)
               \o <<0, splice_bit_count, 0, 0>>)

\* chunks whose IDs, "JUNK" and "info", are none of the six known ones
UnknownChunks ==
  { Chunk(id, Repeat(7, n)) :
      id \in { <<74, 85, 78, 75>>, <<105, 110, 102, 111>> }, n \in {0, MaxJunkLen} }

\* the same file with the CRC field of the header set
WithCrc(stream, crc_raw) == Slice(stream, 0, 8) \o crc_raw \o Slice(stream, 12, Len(stream))

\* "title\tFoo\nlanguage\tEnglish|French\n\nnotes\t\n"
MetaBytes ==
  <<116, 105, 116, 108, 101, 9, 70, 111, 111, 10>>
  \o <<108, 97, 110, 103, 117, 97, 103, 101, 9>>
  \o kLanguages[1] \o <<124>> \o kLanguages[3] \o <<10, 10>>
  \o <<110, 111, 116, 101, 115, 9, 10>>

Base2 == File(kWOZ2, InfoChunk(Info2) \o MapChunk(kTMAP, <<0, 0>>) \o TrksV2Chunk(1))

\* the files that are also loaded after an alteration
AlterFiles ==
  { Base2,
    WithCrc(Base2, crc32(Slice(Base2, 12, Len(Base2)))),
    File(kWOZ2, InfoChunk(Info2) \o MapChunk(kTMAP, <<>>) \o TrksV2Chunk(0)),
    Base2 \o Chunk(kWRIT, <<1, 2, 3>>) \o Chunk(kMETA, MetaBytes),
    File(kWOZ2, InfoChunk(Info2) \o InfoChunk(Info2)
                \o MapChunk(kTMAP, <<255, 1, 1>>) \o MapChunk(kFLUX, <<0>>)
                \o TrksV2Chunk(MaxTracks)) }

\* the files the commands and the calls of the track operations are run on:
\* WOZ2, WOZ1 and MOOF images of either disk type, with tracks that several
\* entries, one entry or no entry of TMAP and FLUX refer to
CommandFiles ==
  LET one == MapChunk(kTMAP, <<0, 0>>) \o TrksV2Chunk(1)
      v1 == TrksV1Chunk(170, 6646, 51000, 65535, 0)
  IN { Base2,
       Base2 \o Chunk(kWRIT, <<1, 2, 3>>) \o Chunk(kMETA, MetaBytes),
       File(kWOZ2, InfoChunk([Info2 EXCEPT !.boot_sector_format = 1]) \o one),
       File(kWOZ2, InfoChunk([Info2 EXCEPT !.optimal_bit_timing = 30]) \o one),
       File(kWOZ2, InfoChunk([Info2 EXCEPT !.disk_type = 2, !.disk_sides = 2,
                                           !.optimal_bit_timing = 16]) \o one),
       File(kWOZ1, InfoChunk([Info2 EXCEPT !.version = 1]) \o MapChunk(kTMAP, <<0, 0>>) \o v1),
       File(kWOZ1, InfoChunk([Info2 EXCEPT !.version = 1, !.disk_type = 2])
                   \o MapChunk(kTMAP, <<0, 0>>) \o v1),
       File(kMOOF, InfoChunk([Info2 EXCEPT !.version = 1, !.disk_type = 2, !.byte4 = 16])
                   \o one \o MapChunk(kFLUX, <<255, 0>>)),
       File(kWOZ2, InfoChunk(Info2) \o MapChunk(kTMAP, <<0>>)
                   \o TrksRawChunk(<<3, 0, 0, 0, 0, 0, 0, 0>>, 1, 170)),
       File(kWOZ2, InfoChunk(Info2) \o MapChunk(kTMAP, <<0, 0, 1>>) \o TrksV2Chunk(MaxTracks)),
       File(kWOZ2, InfoChunk(Info2) \o MapChunk(kTMAP, <<255, 1, 1>>)
                   \o TrksV2Chunk(MaxTracks)),
       File(kWOZ2, InfoChunk(Info2) \o MapChunk(kTMAP, <<1, 0>>) \o TrksV2Chunk(MaxTracks)
                   \o MapChunk(kFLUX, <<0, 255, 255, 1>>)),
       File(kWOZ2, InfoChunk([Info2 EXCEPT !.version = 3]) \o MapChunk(kTMAP, <<255, 0>>)
                   \o TrksV2Chunk(MaxTracks) \o MapChunk(kFLUX, <<1, 255, 0>>)) }

\* the --info flags given to edit: none, one, or two of them in both orders,
\* and the --meta flags given to it (comments give each value as text)
EditFlags ==
  LET flag(k, v) == [k |-> k, v |-> v]
      pairs == { <<flag("disk_sides", <<50>>), flag("disk_type", <<50>>)>>,
                 <<flag("boot_sector_format", <<48>>), flag("disk_type", <<50>>)>>,
                 <<flag("optimal_bit_timing", <<50, 48>>), flag("disk_type", <<50>>)>>,
                 <<flag("disk_sides", <<50>>), flag("version", <<50>>)>>,
                 <<flag("disk_type", <<50>>), flag("version", <<50>>)>>,
                 <<flag("optimal_bit_timing", <<49, 54>>), flag("version", <<50>>)>>,
                 <<flag("disk_type", <<50>>), flag("disk_type", <<49>>)>>,
                 <<flag("write_protected", <<49>>), flag("creator", <<52, 97, 109>>)>>,
                 <<flag("write_protected", <<50>>), flag("disk_sides", <<51>>)>>,
                 <<flag("write_protected", <<49>>), flag("disk_sides", <<51>>)>>,
                 <<flag("version", <<52>>), flag("disk_sides", <<51>>)>>,
                 <<flag("disk_type", <<51>>), flag("cleaned", <<49, 48>>)>> }
      info ==
        { <<>>,
          <<flag("version", <<49>>)>>, \* version:1
          <<flag("version", <<50>>)>>, \* version:2
          <<flag("version", <<51>>)>>, \* version:3
          <<flag("version", <<52>>)>>, \* version:4
          <<flag("version", <<116, 119, 111>>)>>, \* version:two
          <<flag("disk_type", <<48>>)>>, \* disk_type:0
          <<flag("disk_type", <<49>>)>>, \* disk_type:1
          <<flag("disk_type", <<50>>)>>, \* disk_type:2
          <<flag("disk_type", <<51>>)>>, \* disk_type:3
          <<flag("write_protected", <<49>>)>>, \* write_protected:1
          <<flag("write_protected", <<116, 114, 117, 101>>)>>, \* write_protected:true
          <<flag("write_protected", <<89, 69, 83>>)>>, \* write_protected:YES
          <<flag("write_protected", <<48>>)>>, \* write_protected:0
          <<flag("write_protected", <<110, 111>>)>>, \* write_protected:no
          <<flag("write_protected", <<70, 97, 76, 115, 69>>)>>, \* write_protected:FaLsE
          <<flag("write_protected", <<48, 49>>)>>, \* write_protected:01
          <<flag("write_protected", <<32, 49>>)>>, \* write_protected:' 1'
          <<flag("write_protected", <<43, 49>>)>>, \* write_protected:+1
          <<flag("write_protected", <<48, 95, 49>>)>>, \* write_protected:0_1
          <<flag("write_protected", <<48, 48>>)>>, \* write_protected:00
          <<flag("write_protected", <<50>>)>>, \* write_protected:2
          <<flag("write_protected", <<111, 110>>)>>, \* write_protected:on
          <<flag("write_protected", <<>>)>>, \* write_protected:''
          <<flag("write_protected", <<49, 95>>)>>, \* write_protected:1_
          <<flag("write_protected", <<28, 49>>)>>, \* write_protected:'\x1c1'
          <<flag("write_protected", <<49, 12>>)>>, \* write_protected:'1\x0c'
          <<flag("synchronized", <<121, 101, 115>>)>>, \* synchronized:yes
          <<flag("synchronized", <<48, 49>>)>>, \* synchronized:01
          <<flag("synchronized", <<121>>)>>, \* synchronized:y
          <<flag("cleaned", <<84, 114, 117, 101>>)>>, \* cleaned:True
          <<flag("cleaned", <<45, 48>>)>>, \* cleaned:-0
          <<flag("cleaned", <<49, 48>>)>>, \* cleaned:10
          <<flag("creator", <<52, 97, 109>>)>>, \* creator:4am
          <<flag("disk_sides", <<49>>)>>, \* disk_sides:1
          <<flag("disk_sides", <<50>>)>>, \* disk_sides:2
          <<flag("disk_sides", <<51>>)>>, \* disk_sides:3
          <<flag("disk_sides", <<116, 119, 111>>)>>, \* disk_sides:two
          <<flag("disk_sides", <<49, 31>>)>>, \* disk_sides:'1\x1f'
          <<flag("boot_sector_format", <<48>>)>>, \* boot_sector_format:0
          <<flag("boot_sector_format", <<50>>)>>, \* boot_sector_format:2
          <<flag("optimal_bit_timing", <<49, 54>>)>>, \* optimal_bit_timing:16
          <<flag("optimal_bit_timing", <<51, 49>>)>>, \* optimal_bit_timing:31
          <<flag("required_ram", <<49, 50, 56, 75>>)>>, \* required_ram:128K
          <<flag("required_ram", <<54, 52>>)>>, \* required_ram:64
          <<flag("required_ram", <<55, 48, 48, 48, 48>>)>>, \* required_ram:70000
          <<flag("required_ram", <<45, 49>>)>>, \* required_ram:-1
          <<flag("compatible_hardware", <<50, 101, 124, 50, 99>>)>>, \* compatible_hardware:2e|2c
          <<flag("compatible_hardware", <<52>>)>>, \* compatible_hardware:4
          <<flag("foo", <<49>>)>>, \* foo:1
          <<flag("creator", Repeat(120, 33))>> }  \* creator: 33 times x
        \cup pairs \cup { <<p[2], p[1]>> : p \in pairs }
      meta ==
        { <<flag(<<116, 105, 116, 108, 101>>, <<70, 111, 111>>)>>,  \* title:Foo
          <<flag(<<116, 105, 116, 108, 101>>, <<>>)>>,  \* title:
          <<flag(<<108, 97, 110, 103, 117, 97, 103, 101>>, <<69, 110, 103, 108, 105, 115, 104, 124, 70, 114, 101, 110, 99, 104>>)>>,  \* language:English|French
          <<flag(<<108, 97, 110, 103, 117, 97, 103, 101>>, <<75, 108, 105, 110, 103, 111, 110>>)>>,  \* language:Klingon
          <<flag(<<110, 111, 116, 101, 115>>, <<97, 10, 98>>)>>,  \* notes:a, then a line feed, then b
          <<flag(<<116, 9, 120>>, <<121>>)>>,  \* t, then a tab, then x:y
          <<flag(<<97>>, <<98>>)>> \o <<flag(<<97>>, <<99>>)>> }  \* a:b and a:c
  IN { [info |-> i, meta |-> <<>>] : i \in info }
     \cup { [info |-> <<>>, meta |-> m] : m \in meta }

\* MOOF files of one track, for parse.  A track is made of self-sync nibbles
\* (FF, then two zero bits), address fields (D5 AA 96, five nibbles, DE AA)
\* and data fields (D5 AA AD, the sector, 703 nibbles, DE AA); the data
\* field of a sector of 524 zero bytes is 703 times the nibble of 0.  The
\* tracks: one good sector; a sector with the nibble AA, which is not in the
\* translation table, in its address field, then a good sector; a sector
\* with AA in its data field, then a good sector; an address field with a
\* wrong checksum and nothing else; a track of sectors that each fail one
\* test of parse (track 255, sector 11 of a track of 10, a wrong address
\* epilogue, no data field, a wrong data checksum, the data field of
\* another sector, a wrong data epilogue), then a good sector; an address
\* field with no data field, then a good sector; one sector with the data
\* field of another and no good sector; two sectors of bytes that are not
\* all zero, the second with a wrong 700th nibble; one sector of track ID
\* 0x20; a sector of track ID 0x60 and one of track ID 0x80.
MoofFiles ==
  LET enc(v) == kDefaultNibbleTranslationTable16[v + 1]
      sync == <<1, 1, 1, 1, 1, 1, 1, 1, 0, 0>>
      bits(nibbles) == [i \in 1..(8 * Len(nibbles)) |->
                          (nibbles[((i - 1) \div 8) + 1] \div (2 ^ (7 - ((i - 1) % 8)))) % 2]
      address(h0, sector_id, h2, volume) ==
        <<213, 170, 150, enc(h0), enc(sector_id), enc(h2), enc(volume),
          enc(Xor8(Xor8(Xor8(h0, sector_id), h2), volume)), 222, 170>>
      data(sector_id) == <<213, 170, 173, enc(sector_id)>> \o Repeat(enc(0), 703) \o <<222, 170>>
      \* a data field whose bytes leave c1 = 0x28, c2 = 0x102, c3 = 0xDA, with
      \* high for its 700th nibble
      summed(sector_id, high) ==
        <<213, 170, 173, enc(sector_id), enc(0), enc(2)>> \o Repeat(enc(0), 697)
        \o <<enc(high), enc(26), enc(2), enc(40), 222, 170>>
      good(sector_id) == sync \o sync \o bits(address(1, sector_id, 0, 34))
                         \o sync \o bits(data(sector_id))
      bytes(b) == [k \in 1..((Len(b) + 7) \div 8) |->
                     LET at(j) == IF 8 * (k - 1) + j <= Len(b) THEN b[8 * (k - 1) + j] ELSE 0
                     IN 128 * at(1) + 64 * at(2) + 32 * at(3) + 16 * at(4)
                        + 8 * at(5) + 4 * at(6) + 2 * at(7) + at(8)]
      blocks(raw) == (Len(raw) + 511) \div 512
      trks(b) == Chunk(kTRKS, LJust(to_uint16(3) \o to_uint16(blocks(bytes(b)))
                                    \o to_uint32(Len(b)), 1280, 0)
                              \o LJust(bytes(b), 512 * blocks(bytes(b)), 0))
      file(tmap, b) == File(kMOOF, InfoChunk([Info2 EXCEPT !.version = 1, !.disk_type = 2,
                                                           !.byte4 = 16])
                                   \o MapChunk(kTMAP, tmap) \o trks(b))
  IN { file(<<0, 0>>, good(1)),
       file(<<0>>, sync \o bits(<<213, 170, 150, enc(1), 170, enc(0), enc(34), enc(35), 222, 170>>)
                   \o good(2)),
       file(<<0>>, sync \o bits(address(1, 0, 0, 34)) \o sync
                   \o bits(<<213, 170, 173, enc(0), enc(0), enc(0), 170, enc(0)>>)
                   \o good(1)),
       file(<<0>>, sync \o bits(<<213, 170, 150, enc(1), enc(0), enc(0), enc(34), enc(0),
                                  222, 170>>)),
       file(<<0>>, sync \o bits(address(63, 2, 33, 34))
                   \o sync \o bits(address(32, 11, 0, 34))
                   \o sync \o bits(<<213, 170, 150, enc(1), enc(2), enc(0), enc(34), enc(33),
                                      222, 171>>)
                   \o sync \o bits(address(1, 3, 0, 34))
                   \o sync \o bits(address(1, 9, 0, 34))
                   \o sync \o bits(address(1, 4, 0, 34))
                   \o sync \o bits(<<213, 170, 173, enc(4)>> \o Repeat(enc(0), 702)
                                    \o <<enc(1), 222, 170>>)
                   \o sync \o bits(address(1, 5, 0, 34)) \o sync \o bits(data(6))
                   \o sync \o bits(address(1, 7, 0, 34))
                   \o sync \o bits(<<213, 170, 173, enc(7)>> \o Repeat(enc(0), 703)
                                    \o <<222, 171>>)
                   \o good(1)),
       file(<<0>>, sync \o bits(address(1, 8, 0, 34)) \o good(1)),
       file(<<0>>, sync \o bits(address(1, 5, 0, 34)) \o sync \o bits(data(6))),
       file(<<0>>, sync \o bits(address(1, 3, 0, 34)) \o sync \o bits(summed(3, 48))
                   \o sync \o bits(address(1, 4, 0, 34)) \o sync \o bits(summed(4, 16))),
       file(<<0>>, sync \o sync \o bits(address(16, 1, 0, 34)) \o sync \o bits(data(1))),
       file(<<0>>, sync \o sync \o bits(address(48, 1, 0, 34)) \o sync \o bits(data(1))
                   \o sync \o sync \o bits(address(0, 2, 1, 34)) \o sync \o bits(data(2))) }

Inputs ==
  LET junk == Chunk(<<74, 85, 78, 75>>, <<9, 9>>)
      maps == {<<>>} \cup { <<255, i, i>> : i \in 0..MaxTracks }
      \* WOZ2 files: TMAP, then TRKS and FLUX in either order
      Woz2Files ==
        { File(kWOZ2, InfoChunk(Info2) \o MapChunk(kTMAP, t) \o TrksV2Chunk(n)) :
            t \in maps, n \in 0..MaxTracks }
        \cup { File(kWOZ2, InfoChunk(Info2) \o MapChunk(kTMAP, t) \o TrksV2Chunk(n)
                           \o MapChunk(kFLUX, f)) :
                 t \in maps, n \in 1..MaxTracks, f \in maps }
        \cup { File(kWOZ2, InfoChunk(Info2) \o MapChunk(kTMAP, t) \o MapChunk(kFLUX, f)
                           \o TrksV2Chunk(n)) :
                 t \in {<<>>, <<255, 0, 0>>}, n \in 1..MaxTracks, f \in maps \ {<<>>} }
      \* files with WRIT, META, unknown chunks, a CRC, odd TRKS descriptors,
      \* other image types and other INFO fields
      OtherFiles ==
        { Base2 \o Chunk(kWRIT, <<>>),
          Base2 \o Chunk(kMETA, MetaBytes) \o junk,
          Base2 \o Chunk(kMETA, <<>>),
          Base2 \o Chunk(kMETA, <<97, 10>>),
          Base2 \o Chunk(kMETA, <<255>>),
          WithCrc(Base2 \o junk, crc32(Slice(Base2 \o junk, 12, Len(Base2 \o junk)))),
          WithCrc(Base2, <<1, 0, 0, 0>>),
          File(kWOZ2, InfoChunk(Info2) \o MapChunk(kTMAP, <<0>>)
                      \o TrksRawChunk(<<3, 0, 0, 0, 0, 0, 0, 0>>, 1, 170)),
          File(kWOZ2, InfoChunk(Info2) \o MapChunk(kTMAP, <<0>>)
                      \o TrksRawChunk(<<3, 0, 1, 0, 0, 0, 0, 32>>, 1, 170)),
          File(kWOZ2, InfoChunk(Info2) \o MapChunk(kTMAP, <<1, 0>>)
                      \o TrksRawChunk(<<3, 0, 0, 0, 5, 0, 0, 0, 3, 0, 1, 0, 9, 0, 0, 0>>, 1, 170)),
          File(kWOZ2, InfoChunk(Info2) \o MapChunk(kTMAP, <<>>)
                      \o TrksRawChunk(<<1, 0, 1, 0, 1, 0, 0, 0>>, 1, 170)),
          File(kWOZ2, InfoChunk(Info2) \o MapChunk(kTMAP, <<>>) \o Chunk(kTRKS, <<>>)),
          File(kWOZ2,
               InfoChunk([Info2 EXCEPT !.disk_type = 2, !.disk_sides = 2,
                                       !.optimal_bit_timing = 16, !.version = 3,
                                       !.required_ram = 128, !.compatible_hardware = 341,
                                       !.write_protected = 1])
               \o MapChunk(kTMAP, <<0, 0>>) \o TrksV2Chunk(1)),
          File(kWOZ2, InfoChunk([Info2 EXCEPT !.disk_sides = 2])
                      \o MapChunk(kTMAP, <<0, 0>>) \o TrksV2Chunk(1)),
          File(kWOZ2, InfoChunk([Info2 EXCEPT !.optimal_bit_timing = 0])
                      \o MapChunk(kTMAP, <<0, 0>>) \o TrksV2Chunk(1)),
          File(kWOZ2, InfoChunk([Info2 EXCEPT !.disk_type = 2, !.optimal_bit_timing = 16])
                      \o InfoChunk(Info2) \o MapChunk(kTMAP, <<0, 0>>) \o TrksV2Chunk(1)),
          File(kMOOF, InfoChunk([Info2 EXCEPT !.version = 1, !.disk_type = 2, !.byte4 = 16])
                      \o MapChunk(kTMAP, <<0, 0>>) \o TrksV2Chunk(1)
                      \o MapChunk(kFLUX, <<255, 0>>)),
          File(kWOZ1, InfoChunk([Info2 EXCEPT !.version = 1])
                      \o MapChunk(kTMAP, <<0, 0>>) \o TrksV1Chunk(170, 6646, 51000, 65535, 0)),
          File(kWOZ1, InfoChunk([Info2 EXCEPT !.version = 1])
                      \o MapChunk(kTMAP, <<>>) \o TrksV1Chunk(170, 6646, 51000, 100, 7)) }
      \* files whose chunks are out of order or missing
      tail == InfoChunk(Info2) \o MapChunk(kTMAP, <<>>) \o TrksV2Chunk(0)
      others == { TrksV2Chunk(0), MapChunk(kFLUX, <<>>), Chunk(kWRIT, <<1, 2, 3>>),
                  Chunk(kMETA, <<97, 9, 98, 10>>), Chunk(<<74, 85, 78, 75>>, <<1, 2, 3>>) }
      OrderFiles ==
        { File(kWOZ2, c \o tail) : c \in others \cup {MapChunk(kTMAP, <<>>)} }
        \cup { File(kWOZ2, c) : c \in others \cup {MapChunk(kTMAP, <<>>)} }
        \cup { File(kWOZ2, InfoChunk(Info2) \o c \o MapChunk(kTMAP, <<>>) \o TrksV2Chunk(0)) :
                 c \in others }
        \cup { File(kWOZ2, InfoChunk(Info2) \o c) : c \in others }
        \cup { File(kWOZ2, <<>>),
               File(kWOZ2, InfoChunk(Info2)),
               File(kWOZ2, InfoChunk(Info2) \o InfoChunk(Info2)),
               File(kWOZ2, Chunk(kINFO, Repeat(0, 59))),
               File(kWOZ2, InfoChunk(Info2) \o Chunk(kTMAP, Repeat(255, 159))) }
      \* files whose 12 first bytes are cut short or altered
      HeaderFiles ==
        { Slice(File(kWOZ2, tail), 0, n) : n \in 0..12 }
        \cup { Slice(m \o <<ff, lf, 13, 10>> \o NoCrc \o tail, 0, n) :
                 m \in {kWOZ1, kWOZ2, kMOOF, <<87, 79, 90, 51>>, <<119, 111, 122, 50>>},
                 ff \in {255, 0}, lf \in {10, 13}, n \in {8, 11, 20} }
  IN Woz2Files \cup OtherFiles \cup OrderFiles \cup HeaderFiles \cup AlterFiles

(***************************************************************************)
(* The chunks of a file, read off its bytes                                *)
(***************************************************************************)
\* the complete chunks of the stream from pos on: ID, offset, end offset
RECURSIVE Chunks(_, _)
Chunks(stream, pos) ==
  IF pos + 8 > Len(stream) THEN <<>>
  ELSE LET end == pos + 8 + from_uint32(Slice(stream, pos + 4, pos + 8))
       IN IF end > Len(stream) THEN <<>>
          ELSE <<[id |-> Slice(stream, pos, pos + 4), start |-> pos, end |-> end]>>
               \o Chunks(stream, end)

\* the chunk boundaries: after the header and after every complete chunk
Boundaries(stream) ==
  {12} \cup { Chunks(stream, 12)[n].end : n \in 1..Len(Chunks(stream, 12)) }

\* the stream is a 12-byte header followed by complete chunks only
WholeChunks(stream) == Len(stream) >= 12 /\ Len(stream) \in Boundaries(stream)

\* the end of the first TMAP chunk, or -1
FirstTmapEnd(stream) ==
  LET hits == { n \in 1..Len(Chunks(stream, 12)) : Chunks(stream, 12)[n].id = kTMAP }
  IN IF hits = {} THEN -1
     ELSE Chunks(stream, 12)[CHOOSE n \in hits : \A m \in hits : n <= m].end

(***************************************************************************)
(* The state machine: a file is loaded chunk by chunk, the image is        *)
(* dumped, the dumped bytes are loaded again and dumped again.  After a    *)
(* successful load the file may be altered (cut, given one more chunk, a   *)
(* CRC or another compatible_hardware value) and loaded anew; `first`      *)
(* then keeps the image of the unaltered file.                             *)
(***************************************************************************)
VARIABLES
  ld,      \* the loader state of the load in progress (see Loader)
  pc,      \* "load", "loaded", "failed", "dumped", "reloaded", "redumped";
           \* of a command "updated", "raised", "written"; of seek "sought"
  out,     \* the result [err, val] of dump, once made
  reld,    \* the loader state in which the load of out.val ended
  out2,    \* the result of the dump of the reloaded image
  first,   \* the image of the unaltered file, once the file was altered
  mut,     \* how the file was altered
  cmd      \* the command run on the loaded image, or the call made on it

vars == <<ld, pc, out, reld, out2, first, mut, cmd>>

NoMut == [kind |-> "none", at |-> 0, arg |-> <<>>, right |-> <<>>]

\* what is kept of a loader state that has halted
Outcome(s) == [err |-> s.err, stage |-> s.stage, img |-> s.img]

\* WozDiskImage(iostream) is about to load the stream; WozDiskImage() has
\* reset the image and loads nothing
Init ==
  /\ ld \in { Loader(b) : b \in Inputs \cup CommandFiles \cup MoofFiles }
            \cup { [Loader(<<>>) EXCEPT !.stage = "new"] }
  /\ pc = IF ld.stage = "new" THEN "new" ELSE "load"
  /\ out = [err |-> "not yet", val |-> <<>>]
  /\ reld = [err |-> "not yet", stage |-> "header", img |-> reset]
  /\ out2 = [err |-> "not yet", val |-> <<>>]
  /\ first = [err |-> "not yet", stage |-> "header", img |-> reset]
  /\ mut = NoMut
  /\ cmd = [kind |-> "none", args |-> <<>>, before |-> reset, err |-> NoError,
            res |-> <<>>, file |-> <<>>]

After(s) == IF s.err # NoError THEN "failed" ELSE IF s.stage = "done" THEN "loaded" ELSE "load"

LoadHeader ==
  /\ pc = "load" /\ ld.stage = "header"
  /\ ld' = load_header(ld)
  /\ pc' = After(ld')
  /\ UNCHANGED <<out, reld, out2, first, mut, cmd>>

LoadChunk ==
  /\ pc = "load" /\ ld.stage = "chunks"
  /\ ld' = load_chunk(ld)
  /\ pc' = After(ld')
  /\ UNCHANGED <<out, reld, out2, first, mut, cmd>>

LoadCheck ==
  /\ pc = "load" /\ ld.stage = "check"
  /\ ld' = load_check(ld)
  /\ pc' = After(ld')
  /\ UNCHANGED <<out, reld, out2, first, mut, cmd>>

\* dump of the loaded image, or of the image a command has updated
Dump ==
  /\ pc \in {"loaded", "updated"}
  /\ out' = dump(ld.img)
  /\ pc' = "dumped"
  /\ UNCHANGED <<ld, reld, out2, first, mut, cmd>>

Reload ==
  /\ pc = "dumped" /\ out.err = NoError
  /\ reld' = Outcome(load(out.val))
  /\ pc' = "reloaded"
  /\ UNCHANGED <<ld, out, out2, first, mut, cmd>>

Redump ==
  /\ pc = "reloaded" /\ reld.err = NoError
  /\ out2' = dump(reld.img)
  /\ pc' = "redumped"
  /\ UNCHANGED <<ld, out, reld, first, mut, cmd>>

\* a file of AlterFiles that loaded may be altered, once
CanAlter == pc = "loaded" /\ mut.kind = "none" /\ ld.stream \in AlterFiles

\* the file is loaded anew after alteration m
Alter(stream, m) ==
  /\ ld' = Loader(stream)
  /\ pc' = "load"
  /\ first' = Outcome(ld)
  /\ mut' = m
  /\ UNCHANGED <<out, reld, out2, cmd>>

\* the cuts tried: every chunk boundary but the end of the file, and places
\* inside the ID, the length and the payload of every chunk
Truncate ==
  /\ CanAlter
  /\ \E k \in ({0} \cup Boundaries(ld.stream)
               \cup { Chunks(ld.stream, 12)[n].start + d :
                        n \in 1..Len(Chunks(ld.stream, 12)), d \in {2, 6, 8} }
               \cup { Len(ld.stream) - 1 })
              \cap 0..(Len(ld.stream) - 1) :
       Alter(Slice(ld.stream, 0, k),
             [kind |-> "truncate", at |-> k, arg |-> <<>>,
              right |-> IF k \in Boundaries(ld.stream) THEN <<1>> ELSE <<0>>])

InsertUnknown ==
  /\ CanAlter
  /\ ld.crc_raw = NoCrc
  /\ \E k \in Boundaries(ld.stream), c \in UnknownChunks :
       Alter(Slice(ld.stream, 0, k) \o c \o Slice(ld.stream, k, Len(ld.stream)),
             [kind |-> "insert", at |-> k, arg |-> c,
              right |-> <<FirstTmapEnd(ld.stream)>>])

\* the CRC-32 of the bytes from offset 12 on, and values that differ from it
SetCrc ==
  /\ CanAlter
  /\ LET right == crc32(Slice(ld.stream, 12, Len(ld.stream)))
     IN \E c \in { right, NoCrc, <<1, 0, 0, 0>>,
                  <<right[1], right[2], right[3], 255 - right[4]>> } :
          Alter(WithCrc(ld.stream, c),
                [kind |-> "crc", at |-> 8, arg |-> c, right |-> right])

\* compatible_hardware is at offset 40 of the payload of the INFO chunk,
\* which starts at offset 20 of a file that loaded; the file has no CRC and
\* no second INFO chunk
SetHardware ==
  /\ CanAlter
  /\ ld.crc_raw = NoCrc
  /\ ld.img.image_type = kWOZ2
  /\ Slice(ld.stream, 80, 84) # kINFO
  /\ \E v \in {0, 1, 256, 341, 510, 511, 512, 513, 1023, 32768, 65535} :
       Alter(Slice(ld.stream, 0, 60) \o to_uint16(v) \o Slice(ld.stream, 62, Len(ld.stream)),
             [kind |-> "hardware", at |-> 60, arg |-> <<v>>, right |-> <<>>])

\* the TRKS chunk of a WOZ2 file made of INFO, TMAP and TRKS chunks (it
\* starts at offset 248) is replaced by one whose two first descriptors d1, d2
\* are <<starting_block, block_count, bit_count>> and whose BITS data are
\* nbytes bytes, those of block k being 160 + k
SetTrks ==
  /\ CanAlter
  /\ ld.crc_raw = NoCrc
  /\ ld.img.image_type = kWOZ2
  /\ FirstTmapEnd(ld.stream) = 248 /\ Slice(ld.stream, 248, 252) = kTRKS
  /\ Len(ld.stream) = 248 + 8 + from_uint32(Slice(ld.stream, 252, 256))
  /\ \E d1 \in (0..(MaxBlocks + 2)) \X (0..MaxBlocks) \X {0, 9},
        d2 \in { <<0, 0, 0>>, <<0, 1, 0>>, <<0, 0, 9>>, <<2, 1, 9>>, <<3, 1, 9>>,
                 <<4, 1, 9>>, <<MaxBlocks + 3, 1, 9>> },
        nbytes \in { 512 * k : k \in 0..MaxBlocks } \cup {511} :
       Alter(Slice(ld.stream, 0, 248)
             \o Chunk(kTRKS,
                      LJust(to_uint16(d1[1]) \o to_uint16(d1[2]) \o to_uint32(d1[3])
                            \o to_uint16(d2[1]) \o to_uint16(d2[2]) \o to_uint32(d2[3]),
                            1280, 0)
                      \o [i \in 1..nbytes |-> 161 + ((i - 1) \div 512)]),
             [kind |-> "trks", at |-> 248, arg |-> <<d1, d2>>, right |-> <<nbytes>>])

\* the lines a META chunk is made of: [key, vals, tabs] stands for the key,
\* then (tabs >= 1) a tab and the values joined by "|", then (tabs = 2) one
\* more tab and "c"; the first one is the empty line.  The keys are "a",
\* "language", "requires_ram", "requires_machine" and "title".
MetaLines ==
  LET line(key, vals, tabs) == [key |-> key, vals |-> vals, tabs |-> tabs]
      language == <<108, 97, 110, 103, 117, 97, 103, 101>>
      requires_ram == <<114, 101, 113, 117, 105, 114, 101, 115, 95, 114, 97, 109>>
      requires_machine == <<114, 101, 113, 117, 105, 114, 101, 115, 95, 109, 97, 99, 104,
                            105, 110, 101>>
  IN { line(<<>>, << <<>> >>, 0),
       line(<<97>>, << <<98>> >>, 0),
       line(<<97>>, << <<98>> >>, 1),
       line(<<97>>, << <<98>>, <<100>> >>, 2),
       line(language, << kLanguages[1], kLanguages[3] >>, 1),
       line(language, << <<69, 110, 103, 108, 117, 115, 104>> >>, 1),
       line(language, << <<>> >>, 1),
       line(language, << kLanguages[1], <<>> >>, 1),
       line(requires_ram, << kRequiresRAM[5] >>, 1),
       line(requires_ram, << <<48>> >>, 1),
       line(requires_machine, << kRequiresMachine[3], <<52>> >>, 1),
       line(<<116, 105, 116, 108, 101>>, << <<52>> >>, 1) }

\* the bytes of the lines, each one followed by LF
RECURSIVE MetaPayload(_)
MetaPayload(lines) ==
  IF lines = <<>> THEN <<>>
  ELSE lines[1].key
       \o (IF lines[1].tabs >= 1 THEN <<9>> ELSE <<>>)
       \o Join(lines[1].vals, 124)
       \o (IF lines[1].tabs = 2 THEN <<9, 99>> ELSE <<>>)
       \o <<10>> \o MetaPayload(Tail(lines))

\* a WOZ2 file with one track and no META chunk is given a META chunk, at
\* its end, of 0..MaxLines lines
SetMeta ==
  /\ CanAlter
  /\ ld.crc_raw = NoCrc
  /\ ld.img.meta = <<>> /\ ld.img.writ = None /\ Len(ld.img.tracks) = 1
  /\ \E n \in 0..MaxLines : \E lines \in [1..n -> MetaLines] :
       Alter(ld.stream \o Chunk(kMETA, MetaPayload(lines)),
             [kind |-> "meta", at |-> Len(ld.stream), arg |-> lines, right |-> <<>>])

\* a command or a call is made once, on an unaltered file that loaded
CanRun == pc = "loaded" /\ mut.kind = "none" /\ cmd.kind = "none" /\ ld.stream \in CommandFiles

\* _WriterBaseCommand.__call__ up to update, for the command `kind` with the
\* arguments args: r is what update gives, [err, val, res], val being
\* self.disk_image as update has left it, also when it raised part of the
\* way.  The image of a command that raised is not used again.
Update(kind, args, r) ==
  /\ ld' = [ld EXCEPT !.img = r.val]
  /\ pc' = IF Fail(r) THEN "raised" ELSE "updated"
  /\ cmd' = [kind |-> kind, args |-> args, before |-> ld.img, err |-> r.err,
             res |-> r.res, file |-> ld.stream]
  /\ UNCHANGED <<out, reld, out2, first, mut>>

CommandEdit ==
  /\ CanRun
  /\ \E args \in EditFlags :
       LET r == _CommandEdit_update(ld.img, args.info, args.meta)
       IN Update("edit", args, [err |-> r.err, val |-> r.val, res |-> <<>>])

\* _CommandRemove.update: the tracks given are floats (see
\* track_num_to_half_phase); res are the values remove_track returned
CommandRemove ==
  /\ CanRun
  /\ \E tracks \in { <<>>, <<0>>, <<2>>, <<4>>, <<6>>, <<8>>, <<1>>, <<318>>, <<320>>,
                     <<322>>, <<-2>>, <<0, 0>>, <<0, 2>>, <<2, 4>>, <<4, 0>>, <<6, 321>> } :
       LET RECURSIVE loop(_, _, _)
           loop(d, res, n) ==
             IF n > Len(tracks) THEN [err |-> NoError, val |-> d, res |-> res]
             ELSE LET half_phase == track_num_to_half_phase(tracks[n])
                      r == remove(d, half_phase.val)
                  IN IF Fail(half_phase) THEN [err |-> half_phase.err, val |-> d, res |-> res]
                     ELSE IF Fail(r) THEN [err |-> r.err, val |-> d, res |-> res]
                     ELSE loop(r.val, Append(res, r.res), n + 1)
       IN Update("remove", tracks,
                 IF ld.img.info.disk_type # 1
                 THEN [err |-> "WozINFOFormatError_BadDiskType", val |-> ld.img, res |-> <<>>]
                 ELSE loop(ld.img, <<>>, 1))

\* _CommandImport.update, from_json: j is the "meta" object of the JSON read,
\* as entries in the form of meta; dict.update puts each of them
CommandImport ==
  /\ CanRun
  /\ \E j \in { <<>>,
               <<[key |-> <<116, 105, 116, 108, 101>>, str |-> TRUE,
                  vals |-> << <<70, 111, 111>> >>]>>,
               <<[key |-> <<108, 97, 110, 103, 117, 97, 103, 101>>, str |-> FALSE,
                  vals |-> <<kLanguages[1], kLanguages[3]>>]>>,
               <<[key |-> <<108, 97, 110, 103, 117, 97, 103, 101>>, str |-> TRUE,
                  vals |-> << <<75, 108, 105, 110, 103, 111, 110>> >>]>>,
               <<[key |-> <<116, 105, 116, 108, 101>>, str |-> TRUE,
                  vals |-> << <<97, 124, 98>> >>],
                 [key |-> <<97>>, str |-> TRUE, vals |-> << <<>> >>]>> } :
       LET RECURSIVE update(_, _)
           update(meta, n) ==
             IF n > Len(j) THEN meta
             ELSE IF \E m \in 1..Len(meta) : meta[m].key = j[n].key
             THEN update([m \in 1..Len(meta) |->
                            IF meta[m].key = j[n].key THEN j[n] ELSE meta[m]], n + 1)
             ELSE update(Append(meta, j[n]), n + 1)
       IN Update("import", j,
                 [err |-> NoError, val |-> [ld.img EXCEPT !.meta = update(ld.img.meta, 1)],
                  res |-> <<>>])

\* Write without the load of the dumped bytes
Write_unverified ==
  /\ pc = "dumped" /\ cmd.kind \in {"edit", "remove", "import"}
  /\ out.err = NoError
  /\ cmd' = [cmd EXCEPT !.file = out.val]
  /\ pc' = "written"
  /\ UNCHANGED <<ld, out, reld, out2, first, mut>>

\* the end of _WriterBaseCommand.__call__: the bytes dumped, which loaded,
\* are written to the temporary file, which takes the place of the file
Write ==
  /\ pc = "reloaded" /\ cmd.kind \in {"edit", "remove", "import"}
  /\ reld.err = NoError
  /\ cmd' = [cmd EXCEPT !.file = out.val]
  /\ pc' = "written"
  /\ UNCHANGED <<ld, out, reld, out2, first, mut>>

\* a call of seek on the loaded image, with any multiple of 1/8 from -0.25
\* to 40.375
Seek ==
  /\ CanRun
  /\ \E track_num \in (0 - 2)..323 :
       /\ cmd' = [kind |-> "seek", args |-> <<track_num>>, before |-> ld.img,
                  err |-> seek(ld.img, track_num).err,
                  res |-> seek(ld.img, track_num).val, file |-> ld.stream]
       /\ pc' = "sought"
  /\ UNCHANGED <<ld, out, reld, out2, first, mut>>

\* sectors_per_track with 12 sectors for every track ID
sectors_per_track_twelve(track_id) == 12

\* MoofRWTS.sectors_per_track: 12 sectors for the track IDs 0x00..0x1F, one
\* less for each 0x20 track IDs more, 8 for 0x80..0x9F
sectors_per_track(track_id) == 12 - (track_id \div 32)

\* MoofDiskImage.parse up to the first track: blocks is emptied, the
\* cursors of the tracks are those __init__ made, and the disk type is
\* tested; for is at the first entry of tmap that is not 0xFF.  cmd.res is
\* the state of parse: n the entry of tmap reached, bit_index the cursor of
\* each track, seen_sectors and track_id of the track under scan, blocks,
\* and log, the calls made of the logger
Parse ==
  /\ pc = "loaded" /\ mut.kind = "none" /\ cmd.kind = "none" /\ ld.stream \in MoofFiles
  /\ LET tmap == ld.img.tmap
         RECURSIVE next_track(_)
         next_track(n) == IF n >= Len(tmap) \/ tmap[n + 1] # 255 THEN n ELSE next_track(n + 1)
         first_track == IF ld.img.info.disk_type \notin {1, 2} THEN Len(tmap) ELSE next_track(0)
     IN /\ cmd' = [kind |-> "parse", args |-> <<>>, before |-> ld.img, err |-> NoError,
                   res |-> [n |-> first_track,
                            bit_index |-> [t \in 1..Len(ld.img.tracks) |-> 0],
                            seen_sectors |-> <<>>, track_id |-> 0 - 1,
                            blocks |-> <<>>, log |-> <<>>],
                   file |-> ld.stream]
        /\ pc' = IF first_track >= Len(tmap) THEN "parsed" ELSE "parsing"
  /\ UNCHANGED <<ld, out, reld, out2, first, mut>>

\* MoofDiskImage.parse, one turn of `while self.rwts.find_address_prologue`
\* on the track under scan: a sector is hunted and, when every test
\* passes, its block appended; when the loop ends, the count of sectors is
\* logged and for goes to the next entry of tmap that is not 0xFF.  A
\* KeyError that is not caught ends parse.
ParseSector ==
  /\ pc = "parsing" /\ Len(cmd.res.log) < MaxEvents
  /\ LET st == cmd.res
         tmap == ld.img.tmap
         t == tmap[st.n + 1] + 1
         track == ld.img.tracks[t]
         address_prologue == <<213, 170, 150>>
         address_epilogue == <<222, 170>>
         data_prologue == <<213, 170, 173>>
         data_epilogue == <<222, 170>>
         \* sum(data[:0x18E]) == 0: each of these bytes is 0
         kE7Bytestream == <<43, 0, 43, 253, 131, 111, 32, 226, 141, 153,
                            73, 68, 71, 130, 217, 38, 251, 198, 3, 248>>
         kPACEPrologue == Repeat(255, 12) \o <<171, 205, 239, 239>>
         warn(message, a) == [message |-> message, T |-> a.track_id, S |-> a.sector_id]
         RECURSIVE next_track(_)
         next_track(n) == IF n >= Len(tmap) \/ tmap[n + 1] # 255 THEN n ELSE next_track(n + 1)
         \* get_pace_key_at_point: the key, <<>> when there is none
         compress(x) == ((x \div 1) % 2) + 2 * ((x \div 4) % 2) + 4 * ((x \div 16) % 2)
                        + 8 * ((x \div 64) % 2) + 16 * ((x \div 256) % 2)
                        + 32 * ((x \div 1024) % 2) + 64 * ((x \div 4096) % 2)
                        + 128 * ((x \div 16384) % 2)
         key(f) == <<compress(256 * f[11] + f[12]), compress(256 * f[9] + f[10]),
                     compress(256 * f[7] + f[8]), compress(256 * f[5] + f[6])>>
         myhex(b) == <<(IF b \div 16 < 10 THEN 48 ELSE 55) + (b \div 16),
                       (IF b % 16 < 10 THEN 48 ELSE 55) + (b % 16)>>
         joined(k) == myhex(k[1]) \o myhex(k[2]) \o myhex(k[3]) \o myhex(k[4])
         pace(v) ==
           IF ~v.ok THEN <<>>
           ELSE joined(key(verify_nibbles_at_point(track, v.bit_index, Repeat(0, 12)).found))
         \* what one turn of the loop leaves: the cursor, seen_sectors,
         \* track_id, the blocks and the log, and whether the loop goes on
         turn(loop, err, i, seen, track_id, blocks, log) ==
           [loop |-> loop, err |-> err, bit_index |-> i, seen_sectors |-> seen,
            track_id |-> track_id, blocks |-> blocks, log |-> log]
         continue(i, seen, log) ==
           turn(TRUE, NoError, i, seen, st.track_id, st.blocks, st.log \o log)
         epilogue(a, d, v, log) ==
           IF ~v.ok
           THEN continue(v.bit_index, Append(st.seen_sectors, a.sector_id),
                         log \o <<warn("T{T},S{S} Data field epilogue invalid", a)>>)
           ELSE turn(TRUE, NoError, v.bit_index, Append(st.seen_sectors, a.sector_id),
                     a.track_id,
                     Append(st.blocks, [address_field |-> a, data_field |-> d]),
                     st.log \o log)
         data(a, r) ==
           IF r.err = "KeyError"
           THEN continue(r.bit_index, Append(st.seen_sectors, a.sector_id),
                         <<warn("T{T},S{S} Data field contains invalid nibble", a)>>)
           ELSE IF ~r.val.valid
           THEN continue(r.bit_index, Append(st.seen_sectors, a.sector_id),
                         <<warn("T{T},S{S} Data field checksums invalid", a)>>)
           ELSE IF a.sector_id # r.val.sector_id
           THEN continue(r.bit_index, Append(st.seen_sectors, a.sector_id),
                         <<warn("T{T},S{S} Address and data field sector IDs do not match", a)>>)
           ELSE epilogue(a, r.val,
                         verify_nibbles_at_point(track, r.bit_index, data_epilogue),
                         IF /\ \A i \in 1..398 : r.val.data[i] = 0
                            /\ SubSeq(r.val.data, 400, 419) = kE7Bytestream
                         THEN <<warn("T{T},S{S} Found E7 bitstream", a)>>
                         ELSE <<>>)
         prologue(a, old_bit_index, f) ==
           IF ~f.found
           THEN continue(f.bit_index, Append(st.seen_sectors, a.sector_id),
                         LET decryption_key ==
                               pace(verify_nibbles_at_point(track, old_bit_index, kPACEPrologue))
                         IN IF decryption_key # <<>>
                            THEN <<[message |-> "T{T},S{S} Found PACE protection, key={X}",
                                    T |-> a.track_id, S |-> a.sector_id, X |-> decryption_key]>>
                            ELSE <<>>)
           ELSE data(a, data_field_at_point(track, f.bit_index))
         sector(a, v) ==
           IF ~v.ok
           THEN continue(v.bit_index, st.seen_sectors,
                         <<warn("T{T},S{S} Address field epilogue invalid", a)>>)
           ELSE IF InSeq(a.sector_id, st.seen_sectors)
           THEN turn(FALSE, NoError, v.bit_index, st.seen_sectors, st.track_id,
                     st.blocks, st.log)
           ELSE prologue(a, v.bit_index,
                         find_this_not_that(track, v.bit_index, data_prologue, address_prologue))
         address(r) ==
           IF Fail(r)
           THEN turn(FALSE, r.err, r.bit_index, st.seen_sectors, st.track_id, st.blocks, st.log)
           ELSE IF ~r.val.valid
           THEN continue(r.bit_index, st.seen_sectors,
                         <<warn("T{T},S{S} Address field checksum invalid", r.val)>>)
           ELSE IF ~(0 <= r.val.track_id /\ r.val.track_id <= 159)
           THEN continue(r.bit_index, st.seen_sectors,
                         <<[message |-> "Address field track ID {T} invalid",
                            T |-> r.val.track_id]>>)
           ELSE IF ~(0 <= r.val.sector_id
                     /\ r.val.sector_id < sectors_per_track(r.val.track_id))
           THEN continue(r.bit_index, st.seen_sectors,
                         <<[message |-> "Address field sector ID {S} invalid",
                            S |-> r.val.sector_id]>>)
           ELSE sector(r.val, verify_nibbles_at_point(track, r.bit_index, address_epilogue))
         found(f) ==
           IF ~f.found
           THEN turn(FALSE, NoError, f.bit_index, st.seen_sectors, st.track_id,
                     st.blocks, st.log)
           ELSE address(address_field_at_point(track, f.bit_index))
         \* behind the loop: the count of the sectors, and the next track
         short(r) ==
           IF r.track_id # 0 - 1 /\ Len(r.seen_sectors) < sectors_per_track(r.track_id)
           THEN <<[message |-> "T{T} Found {X} sectors (expected {Y})", T |-> r.track_id,
                   X |-> Len(r.seen_sectors), Y |-> sectors_per_track(r.track_id)]>>
           ELSE <<>>
         after(r) ==
           IF r.err # NoError
           THEN [st EXCEPT !.bit_index[t] = r.bit_index]
           ELSE IF r.loop
           THEN [st EXCEPT !.bit_index[t] = r.bit_index, !.seen_sectors = r.seen_sectors,
                           !.track_id = r.track_id, !.blocks = r.blocks, !.log = r.log]
           ELSE [n |-> next_track(st.n + 1),
                 bit_index |-> [st.bit_index EXCEPT ![t] = r.bit_index],
                 seen_sectors |-> <<>>, track_id |-> 0 - 1,
                 blocks |-> r.blocks, log |-> r.log \o short(r)]
         done(r, res) ==
           /\ cmd' = [cmd EXCEPT !.err = r.err, !.res = res]
           /\ pc' = IF r.err # NoError THEN "raised"
                    ELSE IF res.n >= Len(tmap) THEN "parsed" ELSE "parsing"
         ended(r) == done(r, after(r))
     IN ended(found(find_this_not_that(track, st.bit_index[t], address_prologue, <<>>)))
  /\ UNCHANGED <<ld, out, reld, out2, first, mut>>

\* calls of add, remove and clean on a new image or on a loaded one, one
\* after the other: args are the calls made, before is the image before the
\* last of them and res what it returned
Call(name, half_phase, r) ==
  /\ ld' = [ld EXCEPT !.img = r.val]
  /\ pc' = IF Fail(r) THEN "raised" ELSE "called"
  /\ cmd' = [kind |-> "call", args |-> Append(cmd.args, <<name, half_phase>>),
             before |-> ld.img, err |-> r.err, res |-> r.res, file |-> ld.stream]
  /\ UNCHANGED <<out, reld, out2, first, mut>>

CanCall ==
  /\ pc \in {"new", "loaded", "called"} /\ mut.kind = "none"
  /\ cmd.kind \in {"none", "call"}
  /\ \/ Len(cmd.args) < MaxCalls
     \/ /\ cmd.args # <<>> /\ cmd.args[Len(cmd.args)][1] = "add_track"
        /\ Len(cmd.args) = Len(ld.img.tracks)
  /\ pc = "loaded" => ld.stream \in CommandFiles /\ Len(ld.img.tracks) = MaxTracks

\* add(half_phase, track) with a track of its own for each call, of 2 blocks
Add ==
  /\ CanCall /\ Len(cmd.args) < MaxCalls
  /\ \E half_phase \in {0, 2, 159, 160} :
       LET raw_count == 5000 + 8 * Len(cmd.args)
           track == [raw_bytes |-> Repeat(Len(cmd.args), raw_count \div 8),
                     raw_count |-> raw_count]
           r == add(ld.img, half_phase, track)
       IN Call("add", half_phase, [err |-> r.err, val |-> r.val, res |-> <<>>])

\* add_track(track_num, track), called again and again on a new image that
\* has its first track at quarter phase 0: each call adds a track of 16 bits
\* of its own at track 2.5 (20 eighths, quarter phase 10), until the image
\* has MaxAdds tracks; one call of remove or clean may follow each of them
AddTrack ==
  /\ pc = "called" /\ ld.stage = "new" /\ cmd.kind = "call"
  /\ cmd.args[1] = <<"add", 0>>
  /\ \A n \in 2..Len(cmd.args) : cmd.args[n] = <<"add_track", 10>>
  /\ Len(ld.img.tracks) < MaxAdds
  /\ LET half_phase == track_num_to_half_phase(20)
         track == [raw_bytes |-> <<Len(cmd.args) \div 256, Len(cmd.args) % 256>>,
                   raw_count |-> 16]
         r == add(ld.img, half_phase.val, track)
     IN Call("add_track", half_phase.val, [err |-> r.err, val |-> r.val, res |-> <<>>])

Remove ==
  /\ CanCall
  /\ \E half_phase \in {0, 1, 2, 3, 159} :
       LET r == remove(ld.img, half_phase)
       IN Call("remove", half_phase, [err |-> r.err, val |-> r.val, res |-> <<r.res>>])

Clean ==
  /\ CanCall
  /\ Call("clean", 0, [err |-> NoError, val |-> clean(ld.img), res |-> <<>>])

Next ==
  \/ LoadHeader \/ LoadChunk \/ LoadCheck
  \/ Dump \/ Reload \/ Redump
  \/ Truncate \/ InsertUnknown \/ SetCrc \/ SetHardware \/ SetTrks \/ SetMeta
  \/ CommandEdit \/ CommandRemove \/ CommandImport \/ Write \/ Seek \/ Parse \/ ParseSector
  \/ Add \/ AddTrack \/ Remove \/ Clean

Spec == Init /\ [][Next]_vars

(***************************************************************************)
(* Properties of load and dump                                             *)
(***************************************************************************)
\* the 12-byte header of the stream is present and passes _load_header
HeaderOk(stream) ==
  /\ Len(stream) >= 12
  /\ Slice(stream, 0, 4) \in {kWOZ1, kWOZ2, kMOOF}
  /\ stream[5] = 255
  /\ Slice(stream, 5, 8) = <<10, 13, 10>>

\* C1: round trip: when load(b) succeeds, dump of the loaded image raises
\* no error, load of the dumped bytes succeeds, and the image loaded again
\* has the same image_type, tmap, flux, writ, meta and tracks as load(b)
RoundTrip ==
  /\ pc = "dumped" => out.err = NoError
  /\ pc \in {"reloaded", "redumped"} =>
       /\ reld.err = NoError
       /\ reld.img.image_type = ld.img.image_type
       /\ reld.img.tmap = ld.img.tmap
       /\ reld.img.flux = ld.img.flux
       /\ reld.img.writ = ld.img.writ
       /\ reld.img.meta = ld.img.meta
       /\ reld.img.tracks = ld.img.tracks

\* C2: dump is a fixpoint on its own output: when dump(x) succeeds,
\* load(dump(x)) succeeds and dump(load(dump(x))) is dump(x) byte for byte
DumpFixpoint ==
  /\ pc = "reloaded" => reld.err = NoError
  /\ pc = "redumped" => out2 = out

\* C3: CRC rule: a file that loads is given another header CRC; with a
\* non-zero CRC load succeeds if and only if the CRC is the CRC-32 of the
\* bytes from offset 12 to the end, and fails with WozCRCError otherwise;
\* with a zero CRC load succeeds
CrcRule ==
  (mut.kind = "crc" /\ Halted(ld)) =>
     IF mut.arg = NoCrc THEN ld.err = NoError
     ELSE IF mut.arg = crc32(Slice(ld.stream, 12, Len(ld.stream)))
     THEN ld.err = NoError
     ELSE ld.err = "WozCRCError"

\* a wrong non-zero CRC was rejected, on a file with WRIT and META chunks
CrcRuleWitness ==
  /\ mut.kind = "crc" /\ mut.arg \notin {NoCrc, mut.right}
  /\ ld.err = "WozCRCError"
  /\ first.img.writ # None

\* C4: INFO-first rule: under a valid 12-byte header, load fails with
\* WozINFOFormatError_MissingINFOChunk when the first chunk is complete and
\* is not INFO, and when the file has no INFO chunk at all
InfoFirst ==
  (Halted(ld) /\ HeaderOk(ld.stream)) =>
     LET ids == [n \in 1..Len(Chunks(ld.stream, 12)) |-> Chunks(ld.stream, 12)[n].id]
     IN /\ (ids # <<>> /\ ids[1] # kINFO)
             => ld.err = "WozINFOFormatError_MissingINFOChunk"
        /\ (WholeChunks(ld.stream) /\ \A n \in 1..Len(ids) : ids[n] # kINFO)
             => ld.err = "WozINFOFormatError_MissingINFOChunk"

\* a TMAP chunk came first, with INFO behind it, and load failed at it
InfoFirstWitness ==
  /\ Halted(ld) /\ HeaderOk(ld.stream)
  /\ LET ids == [n \in 1..Len(Chunks(ld.stream, 12)) |-> Chunks(ld.stream, 12)[n].id]
     IN Len(ids) >= 2 /\ ids[1] = kTMAP /\ ids[2] = kINFO
  /\ ld.err = "WozINFOFormatError_MissingINFOChunk"
  /\ ~ld.seen_tmap

\* C5: TMAP-precedence rule: after a valid INFO chunk load fails with
\* WozTMAPFormatError_MissingTMAPChunk when a TRKS, FLUX, WRIT or META chunk
\* is read before any TMAP chunk, and when the file ends without a TMAP
\* chunk; nothing of TRKS, FLUX, WRIT or META is loaded before a TMAP chunk
\* (an image that was made new is not loaded)
TmapFirst ==
  /\ (~ld.seen_tmap /\ ld.stage # "new") =>
       /\ ld.img.tracks = reset.tracks /\ ld.img.flux = reset.flux
       /\ ld.img.writ = reset.writ /\ ld.img.meta = reset.meta
  /\ (Halted(ld) /\ HeaderOk(ld.stream) /\ ld.seen_info) =>
       LET ids == [n \in 1..Len(Chunks(ld.stream, 12)) |-> Chunks(ld.stream, 12)[n].id]
       IN /\ (Len(ids) >= 2 /\ ids[1] = kINFO /\ ids[2] \in {kTRKS, kFLUX, kWRIT, kMETA})
               => ld.err = "WozTMAPFormatError_MissingTMAPChunk"
          /\ (ld.stage \in {"check", "done"} /\ \A n \in 1..Len(ids) : ids[n] # kTMAP)
               => ld.err = "WozTMAPFormatError_MissingTMAPChunk"

\* a META chunk came between INFO and TMAP and load failed at it
TmapFirstWitness ==
  /\ Halted(ld) /\ HeaderOk(ld.stream) /\ ld.seen_info
  /\ LET ids == [n \in 1..Len(Chunks(ld.stream, 12)) |-> Chunks(ld.stream, 12)[n].id]
     IN Len(ids) >= 3 /\ ids[1] = kINFO /\ ids[2] = kMETA /\ ids[3] = kTMAP
  /\ ld.err = "WozTMAPFormatError_MissingTMAPChunk"
  /\ ld.img.meta = reset.meta

\* C6: after load succeeds every entry of tmap and of flux other than 0xFF
\* is an index into tracks; a file whose chunks were all read and whose
\* tmap has an entry out of range fails with WozTMAPFormatError_BadTRKS,
\* one whose flux has such an entry with WozFLUXFormatError_BadTRKS
MapEntriesValid ==
  LET InRange(map) ==
        \A n \in 1..Len(map) :
           map[n] = 255 \/ (0 <= map[n] /\ map[n] < Len(ld.img.tracks))
  IN /\ ld.stage = "done" => InRange(ld.img.tmap) /\ InRange(ld.img.flux)
     /\ (Halted(ld) /\ ld.stage \in {"check", "done"} /\ ld.seen_info /\ ld.seen_tmap) =>
          IF ~InRange(ld.img.tmap) THEN ld.err = "WozTMAPFormatError_BadTRKS"
          ELSE IF ~InRange(ld.img.flux) THEN ld.err = "WozFLUXFormatError_BadTRKS"
          ELSE ld.err \notin {"WozTMAPFormatError_BadTRKS", "WozFLUXFormatError_BadTRKS"}

\* a FLUX chunk that came before the TRKS chunk names a track that the
\* TRKS chunk does not have, and load failed at the end
MapEntriesValidWitness ==
  /\ ld.err = "WozFLUXFormatError_BadTRKS"
  /\ LET ids == [n \in 1..Len(Chunks(ld.stream, 12)) |-> Chunks(ld.stream, 12)[n].id]
     IN \E m, n \in 1..Len(ids) : m < n /\ ids[m] = kFLUX /\ ids[n] = kTRKS
  /\ \E n \in 1..Len(ld.img.flux) :
        ld.img.flux[n] # 255 /\ ld.img.flux[n] >= Len(ld.img.tracks)

\* C7: header validation and its precedence: fewer than 8 bytes fail with
\* WozEOFError; else a bad magic fails with NoWOZMarker, else byte 4 other
\* than 0xFF with NoFF, else bytes 5..7 other than 0A 0D 0A with NoLF, else
\* fewer than 12 bytes with WozEOFError; no header error is raised otherwise
HeaderRule ==
  Halted(ld) =>
     LET b == ld.stream
     IN IF Len(b) < 8 THEN ld.err = "WozEOFError"
        ELSE IF Slice(b, 0, 4) \notin {kWOZ1, kWOZ2, kMOOF}
        THEN ld.err = "WozHeaderError_NoWOZMarker"
        ELSE IF b[5] # 255 THEN ld.err = "WozHeaderError_NoFF"
        ELSE IF Slice(b, 5, 8) # <<10, 13, 10>> THEN ld.err = "WozHeaderError_NoLF"
        ELSE IF Len(b) < 12 THEN ld.err = "WozEOFError"
        ELSE ld.err \notin {"WozHeaderError_NoWOZMarker", "WozHeaderError_NoFF",
                            "WozHeaderError_NoLF"}

\* byte 4 and bytes 5..7 are both wrong under a good magic: NoFF is raised
HeaderRuleWitness ==
  /\ Len(ld.stream) >= 8
  /\ Slice(ld.stream, 0, 4) = kWOZ2
  /\ ld.stream[5] # 255
  /\ Slice(ld.stream, 5, 8) # <<10, 13, 10>>
  /\ ld.err = "WozHeaderError_NoFF"

\* C8 as stated: a file that loads, cut at a chunk boundary before its
\* end, fails with WozEOFError, and so does the empty file
TruncationAtBoundaryIsEOF ==
  (mut.kind = "truncate" /\ Halted(ld) /\ (mut.right = <<1>> \/ mut.at = 0))
     => ld.err = "WozEOFError"

\* C8: a file that loads, cut inside a chunk (in its ID, its length or its
\* payload), fails with WozEOFError, and so does the empty file; cut at a
\* chunk boundary it never fails with WozEOFError: right after the header
\* it fails with MissingINFOChunk, at a later boundary with no complete TMAP
\* chunk before it with MissingTMAPChunk, and at a boundary behind a TMAP
\* chunk load ends as it does at the end of a file
TruncationRule ==
  (mut.kind = "truncate" /\ Halted(ld)) =>
     IF Len(ld.stream) = 0 THEN ld.err = "WozEOFError"
     ELSE IF ~WholeChunks(ld.stream) THEN ld.err = "WozEOFError"
     ELSE IF Len(ld.stream) = 12
     THEN ld.err = "WozINFOFormatError_MissingINFOChunk"
     ELSE IF FirstTmapEnd(ld.stream) = -1
     THEN ld.err = "WozTMAPFormatError_MissingTMAPChunk"
     ELSE /\ ld.stage \in {"check", "done"}
          /\ ld.err \in {NoError, "WozTMAPFormatError_BadTRKS",
                         "WozFLUXFormatError_BadTRKS", "WozCRCError"}

\* a file cut at the chunk boundary behind its TRKS chunk has loaded, without
\* the WRIT and META chunks that came behind
TruncationRuleWitness ==
  /\ mut.kind = "truncate" /\ mut.right = <<1>>
  /\ Len(ld.stream) = mut.at /\ mut.at > 12
  /\ ld.stage = "done" /\ ld.err = NoError
  /\ ld.img.writ = None /\ first.img.writ # None

\* C9 as stated: a file that loads with header CRC 0 and is given a chunk
\* of unknown ID at any chunk boundary still loads, to the same image
UnknownIgnoredAnywhere ==
  (mut.kind = "insert" /\ Halted(ld)) =>
     ld.err = NoError /\ ld.img = first.img

\* C9: a file that loads with header CRC 0 and is given a chunk of unknown
\* ID at a chunk boundary behind its first TMAP chunk still loads, to the
\* same image; given the chunk right after the header it fails with
\* MissingINFOChunk, and given it elsewhere before the end of the first TMAP
\* chunk it fails with MissingTMAPChunk
UnknownIgnoredAfterTmap ==
  (mut.kind = "insert" /\ Halted(ld)) =>
     LET tmap_end == FirstTmapEnd(ld.stream)
     IN IF tmap_end # -1 /\ tmap_end <= mut.at
        THEN ld.err = NoError /\ ld.img = first.img
        ELSE IF mut.at = 12
        THEN ld.err = "WozINFOFormatError_MissingINFOChunk"
        ELSE ld.err = "WozTMAPFormatError_MissingTMAPChunk"

\* an unknown chunk with a payload, put between the TMAP and TRKS chunks of
\* a file that also has WRIT and META chunks, was passed over
UnknownIgnoredAfterTmapWitness ==
  /\ mut.kind = "insert" /\ Len(mut.arg) > 8
  /\ Slice(ld.stream, mut.at, mut.at + 4) = <<74, 85, 78, 75>>
  /\ mut.at = FirstTmapEnd(ld.stream)
  /\ ld.stage = "done" /\ ld.err = NoError
  /\ ld.img = first.img
  /\ ld.img.writ # None /\ ld.img.meta # <<>> /\ ld.img.tracks # <<>>

\* C10: compatible_hardware: a WOZ2 file that loads is given another
\* compatible_hardware value; it loads exactly when the value is in
\* 0..0x01FF, to the names of the set bits in table order, any other value
\* fails with BadCompatibleHardware, and dump writes the same bitfield
HardwareRule ==
  (mut.kind = "hardware" /\ Halted(ld)) =>
     LET v == mut.arg[1]
         hw == ld.img.info.compatible_hardware
         BitSet(bitfield, k) == (bitfield \div (2 ^ k)) % 2 = 1
         Where(name) == CHOOSE k \in 0..8 : kRequiresMachine[k + 1] = name
     IN IF v <= 511
        THEN /\ ld.err = NoError
             /\ Len(hw) = Cardinality({ k \in 0..8 : BitSet(v, k) })
             /\ \A n \in 1..Len(hw) :
                   /\ hw[n] \in { kRequiresMachine[k + 1] : k \in { j \in 0..8 : BitSet(v, j) } }
                   /\ \A m \in 1..(n - 1) : Where(hw[m]) < Where(hw[n])
             /\ pc = "dumped" =>
                   out.err = NoError /\ Slice(out.val, 60, 62) = to_uint16(v)
        ELSE ld.err = "WozINFOFormatError_BadCompatibleHardware"

\* C11: WOZ2 TRKS descriptors: the descriptors are scanned in order up to
\* the first one with starting_block 0; on the way a starting_block of 1 or 2
\* fails with BadStartingBlock, a used descriptor whose offset
\* 1280 + (starting_block - 3) * 512 is not inside the payload fails with
\* BadStartingBlock and one with fewer than block_count * 512 bytes there
\* with BadBlockCount; the terminating descriptor fails with BadBlockCount
\* when its block_count is not 0, else with BadBitCount when its bit_count
\* is not 0; otherwise one Track per used descriptor is appended, in order,
\* with the block_count * 512 bytes at its offset and its bit_count
TrksDescriptorRule ==
  (mut.kind = "trks" /\ Halted(ld)) =>
     LET ds == mut.arg \o << <<0, 0, 0>> >>
         nbytes == mut.right[1]
         bits == [i \in 1..nbytes |-> 161 + ((i - 1) \div 512)]
         \* the terminating descriptor
         last == CHOOSE n \in 1..Len(ds) :
                   ds[n][1] = 0 /\ \A m \in 1..(n - 1) : ds[m][1] # 0
         off(n) == (ds[n][1] - 3) * 512
         err(n) ==
           IF n = last
           THEN (IF ds[n][2] # 0 THEN "WozTRKSFormatError_BadBlockCount"
                 ELSE IF ds[n][3] # 0 THEN "WozTRKSFormatError_BadBitCount"
                 ELSE NoError)
           ELSE IF ds[n][1] \in {1, 2} THEN "WozTRKSFormatError_BadStartingBlock"
           ELSE IF off(n) >= nbytes THEN "WozTRKSFormatError_BadStartingBlock"
           ELSE IF off(n) + ds[n][2] * 512 > nbytes THEN "WozTRKSFormatError_BadBlockCount"
           ELSE NoError
         bad == { n \in 1..last : err(n) # NoError }
     IN IF bad # {}
        THEN ld.err = err(CHOOSE n \in bad : \A m \in bad : n <= m)
        ELSE /\ ld.err \in {NoError, "WozTMAPFormatError_BadTRKS"}
             /\ Len(ld.img.tracks) = last - 1
             /\ \A n \in 1..(last - 1) :
                   /\ ld.img.tracks[n].raw_bytes
                        = SubSeq(bits, off(n) + 1, off(n) + ds[n][2] * 512)
                   /\ Len(ld.img.tracks[n].raw_bytes) = ds[n][2] * 512
                   /\ ld.img.tracks[n].raw_count = ds[n][3]

\* two used descriptors, the second one before the first in the BITS data,
\* gave two tracks in descriptor order
TrksDescriptorRuleWitness ==
  /\ mut.kind = "trks" /\ ld.stage = "done" /\ ld.err = NoError
  /\ mut.arg[1][1] = 4 /\ mut.arg[1][2] = 1
  /\ mut.arg[2][1] = 3 /\ mut.arg[2][2] = 1
  /\ Len(ld.img.tracks) = 2
  /\ ld.img.tracks[1].raw_bytes[1] = 162 /\ ld.img.tracks[2].raw_bytes[1] = 161

\* C12 as stated: META parsing: empty lines are skipped; of the other lines,
\* in order, one with no tab fails with NotEnoughTabs, one with two or more
\* with TooManyTabs, one whose key was seen with DuplicateKey, and one of the
\* keys language, requires_ram, requires_machine with a value that is not in
\* the key's table with BadLanguage, BadRAM, BadMachine; otherwise load
\* succeeds and meta has the keys and values of the lines, in order
MetaRuleAnyValue ==
  (mut.kind = "meta" /\ Halted(ld)) =>
     LET lines == mut.arg
         \* the lines that are not empty, in order
         RECURSIVE Kept(_)
         Kept(n) ==
           IF n > Len(lines) THEN <<>>
           ELSE (IF lines[n].key = <<>> /\ lines[n].tabs = 0 /\ lines[n].vals = << <<>> >>
                 THEN <<>> ELSE <<lines[n]>>) \o Kept(n + 1)
         kept == Kept(1)
         BadValues(l, table) ==
           \E i \in 1..Len(l.vals) :
              LET v == l.vals[i]
              IN \A j \in 1..Len(table) : table[j] # v
         err(n) ==
           LET l == kept[n]
           IN IF l.tabs = 0 THEN "WozMETAFormatError_NotEnoughTabs"
              ELSE IF l.tabs >= 2 THEN "WozMETAFormatError_TooManyTabs"
              ELSE IF \E m \in 1..(n - 1) : kept[m].key = l.key
              THEN "WozMETAFormatError_DuplicateKey"
              ELSE IF l.key = <<108, 97, 110, 103, 117, 97, 103, 101>>
                      /\ BadValues(l, kLanguages)
              THEN "WozMETAFormatError_BadLanguage"
              ELSE IF l.key = <<114, 101, 113, 117, 105, 114, 101, 115, 95, 114, 97, 109>>
                      /\ BadValues(l, kRequiresRAM)
              THEN "WozMETAFormatError_BadRAM"
              ELSE IF l.key = <<114, 101, 113, 117, 105, 114, 101, 115, 95, 109, 97, 99,
                                104, 105, 110, 101>>
                      /\ BadValues(l, kRequiresMachine)
              THEN "WozMETAFormatError_BadMachine"
              ELSE NoError
         bad == { n \in 1..Len(kept) : err(n) # NoError }
     IN IF bad # {}
        THEN ld.err = err(CHOOSE n \in bad : \A m \in bad : n <= m)
        ELSE /\ ld.err = NoError
             /\ Len(ld.img.meta) = Len(kept)
             /\ \A n \in 1..Len(kept) :
                   ld.img.meta[n].key = kept[n].key /\ ld.img.meta[n].vals = kept[n].vals

\* C12: META parsing: empty lines are skipped; of the other lines, in order,
\* one with no tab fails with NotEnoughTabs, one with two or more with
\* TooManyTabs, one whose key was seen with DuplicateKey, and one of the keys
\* language, requires_ram, requires_machine with a value that is not empty
\* and not in the key's table with BadLanguage, BadRAM, BadMachine (an empty
\* value is accepted); otherwise load succeeds and meta has the keys and
\* values of the lines, in order; a zero-length payload leaves meta empty
MetaRule ==
  (mut.kind = "meta" /\ Halted(ld)) =>
     LET lines == mut.arg
         \* the lines that are not empty, in order
         RECURSIVE Kept(_)
         Kept(n) ==
           IF n > Len(lines) THEN <<>>
           ELSE (IF lines[n].key = <<>> /\ lines[n].tabs = 0 /\ lines[n].vals = << <<>> >>
                 THEN <<>> ELSE <<lines[n]>>) \o Kept(n + 1)
         kept == Kept(1)
         BadValues(l, table) ==
           \E i \in 1..Len(l.vals) :
              LET v == l.vals[i]
              IN v # <<>> /\ \A j \in 1..Len(table) : table[j] # v
         err(n) ==
           LET l == kept[n]
           IN IF l.tabs = 0 THEN "WozMETAFormatError_NotEnoughTabs"
              ELSE IF l.tabs >= 2 THEN "WozMETAFormatError_TooManyTabs"
              ELSE IF \E m \in 1..(n - 1) : kept[m].key = l.key
              THEN "WozMETAFormatError_DuplicateKey"
              ELSE IF l.key = <<108, 97, 110, 103, 117, 97, 103, 101>>
                      /\ BadValues(l, kLanguages)
              THEN "WozMETAFormatError_BadLanguage"
              ELSE IF l.key = <<114, 101, 113, 117, 105, 114, 101, 115, 95, 114, 97, 109>>
                      /\ BadValues(l, kRequiresRAM)
              THEN "WozMETAFormatError_BadRAM"
              ELSE IF l.key = <<114, 101, 113, 117, 105, 114, 101, 115, 95, 109, 97, 99,
                                104, 105, 110, 101>>
                      /\ BadValues(l, kRequiresMachine)
              THEN "WozMETAFormatError_BadMachine"
              ELSE NoError
         bad == { n \in 1..Len(kept) : err(n) # NoError }
     IN IF bad # {}
        THEN ld.err = err(CHOOSE n \in bad : \A m \in bad : n <= m)
        ELSE /\ ld.err = NoError
             /\ Len(ld.img.meta) = Len(kept)
             /\ \A n \in 1..Len(kept) :
                   ld.img.meta[n].key = kept[n].key /\ ld.img.meta[n].vals = kept[n].vals

\* a line "language<tab>English|" loaded: its second value is empty
MetaRuleWitness ==
  /\ mut.kind = "meta" /\ ld.stage = "done" /\ ld.err = NoError
  /\ Len(ld.img.meta) = 2
  /\ ld.img.meta[2].key = <<108, 97, 110, 103, 117, 97, 103, 101>>
  /\ ld.img.meta[2].vals = << kLanguages[1], <<>> >>

\* ---------------------------------------------------------------------------
\* The writer commands
\* ---------------------------------------------------------------------------

\* C13: write-after-verify ordering: in every writer command (edit, remove,
\* import) the file is replaced only after the update, the dump and a load of
\* the dumped bytes have all succeeded, in that order, and what replaces it
\* is those dumped bytes; at every other point of the command, and whenever
\* one of the steps raised (disk_sides:2 or disk_sides:3 on a 5.25-inch image
\* with a version 2 INFO chunk, as in test_command_edit_disk_sides, raises
\* BadDiskSides in the update), the file holds the bytes it held before the
\* command.
WriteAfterVerify ==
  cmd.kind \in {"edit", "remove", "import"} =>
    /\ IF pc = "written"
       THEN /\ cmd.err = NoError
            /\ out = dump(ld.img) /\ out.err = NoError
            /\ reld = Outcome(load(out.val)) /\ reld.err = NoError
            /\ cmd.file = out.val
       ELSE cmd.file = ld.stream
    /\ (pc = "raised") = (cmd.err # NoError)
    /\ ( /\ cmd.kind = "edit" /\ cmd.before.info.disk_type = 1
         /\ cmd.before.info.version >= 2
         /\ cmd.args.info \in { <<[k |-> "disk_sides", v |-> <<50>>]>>,
                                <<[k |-> "disk_sides", v |-> <<51>>]>> } )
       => /\ pc = "raised" /\ cmd.err = "WozINFOFormatError_BadDiskSides"
          /\ cmd.file = ld.stream

WriteAfterVerifyWitness ==
  /\ pc = "written" /\ cmd.kind = "edit" /\ cmd.file # ld.stream
  /\ cmd.args.info = <<[k |-> "disk_type", v |-> <<50>>]>>

\* C14: the writer's self-check never fails: for every image that loaded and
\* every edit, remove or import whose update and dump raise no error, the
\* load of the dumped bytes succeeds.
SelfCheckNeverFails ==
  ( /\ cmd.kind \in {"edit", "remove", "import"} /\ pc \in {"reloaded", "written"}
    /\ cmd.err = NoError /\ out.err = NoError )
  => reld.err = NoError

\* C15: editing disk_type from 1 to 2 on a valid WOZ2 image succeeds, and the
\* load of the written file shows disk_type 2 and optimal_bit_timing 16
\* (kDefaultBitTiming[2]); in general an edit that changes disk_type to a
\* different value sets optimal_bit_timing to kDefaultBitTiming[new
\* disk_type], and an edit that names the current disk_type leaves
\* optimal_bit_timing as it was.  The edits are those of the one flag
\* disk_type:n with n a disk type of the kind of image.
DiskTypeResetsTiming ==
  \A n \in 0..3 :
    ( /\ cmd.kind = "edit"
      /\ cmd.args.info = <<[k |-> "disk_type", v |-> <<48 + n>>]>>
      /\ ~Fail(validate_info_disk_type(cmd.before.image_type, n)) )
    => /\ pc # "raised"
       /\ ld.img.info.disk_type = n
       /\ ld.img.info.optimal_bit_timing =
            IF n # cmd.before.info.disk_type THEN kDefaultBitTiming[n + 1]
            ELSE cmd.before.info.optimal_bit_timing
       /\ ( /\ cmd.before.image_type = kWOZ2 /\ cmd.before.info.disk_type = 1
            /\ n = 2 )
          => /\ pc = "dumped" => out.err = NoError
             /\ pc \in {"reloaded", "written"} =>
                  /\ reld.err = NoError
                  /\ reld.img.info.disk_type = 2
                  /\ reld.img.info.optimal_bit_timing = 16

\* C16: converting WOZ1 to WOZ2: for every valid WOZ1 image (disk_type 1 or
\* 2) the edit version:2 succeeds, and the load of the written file shows
\* info version 2, boot_sector_format 0, optimal_bit_timing 32, no
\* compatible_hardware and required_ram 0.
Woz1ToWoz2 ==
  ( /\ cmd.kind = "edit" /\ cmd.args.info = <<[k |-> "version", v |-> <<50>>]>>
    /\ cmd.before.image_type = kWOZ1 /\ cmd.before.info.disk_type \in {1, 2} )
  => /\ pc # "raised"
     /\ pc = "dumped" => out.err = NoError
     /\ pc \in {"reloaded", "written"} =>
          /\ reld.err = NoError
          /\ reld.img.image_type = kWOZ2
          /\ reld.img.info.version = 2
          /\ reld.img.info.boot_sector_format = 0
          /\ reld.img.info.optimal_bit_timing = 32
          /\ reld.img.info.compatible_hardware = <<>>
          /\ reld.img.info.required_ram = 0

\* C17: boolean coercion on the edit path: a string s given for
\* write_protected, synchronized or cleaned is accepted exactly when
\* lowercase(s) is one of 1, true, yes, 0, false, no; the field becomes True
\* for 1, true, yes and False for 0, false, no; every other string is
\* rejected with the error of the field.
BooleanCoercion ==
  \A k \in {"write_protected", "synchronized", "cleaned"} :
    ( /\ cmd.kind = "edit" /\ Len(cmd.args.info) = 1 /\ cmd.args.info[1].k = k )
    => LET s == cmd.args.info[1].v
           lower == [i \in 1..Len(s) |->
                       IF s[i] >= 65 /\ s[i] <= 90 THEN s[i] + 32 ELSE s[i]]
           trues == { <<49>>, <<116, 114, 117, 101>>, <<121, 101, 115>> }
           falses == { <<48>>, <<102, 97, 108, 115, 101>>, <<110, 111>> }
       IN IF lower \in trues \cup falses
          THEN cmd.err = NoError /\ ld.img.info[k] = (lower \in trues)
          ELSE /\ pc = "raised"
               /\ cmd.err = CASE k = "write_protected" -> "WozINFOFormatError_BadWriteProtected"
                              [] k = "synchronized" -> "WozINFOFormatError_BadSynchronized"
                              [] k = "cleaned" -> "WozINFOFormatError_BadCleaned"

\* ---------------------------------------------------------------------------
\* The track operations
\* ---------------------------------------------------------------------------

\* C18: seek and the quarter-track range: for every track_num of 0, 0.25,
\* 0.5, ..., 40 (here 0, 2, ..., 320 eighths) track_num_to_half_phase
\* returns int(4 * track_num) and seek returns the Track that tmap references
\* there (or, when that entry is 0xFF, the info version is 3 or more and a
\* FLUX map exists, the Track that flux references there) or None, and raises
\* nothing; every other number raises the WozError of an invalid track.
SeekQuarterTracks ==
  cmd.kind = "seek" =>
    LET track_num == cmd.args[1]
        img == cmd.before
        half_phase == track_num \div 2
        entry(map) == IF half_phase < Len(map) THEN map[half_phase + 1] ELSE 255
    IN IF track_num \in 0..320 /\ track_num % 2 = 0
       THEN /\ track_num_to_half_phase(track_num) = Ok(half_phase)
            /\ cmd.err = NoError
            /\ cmd.res = IF entry(img.tmap) # 255
                         THEN <<img.tracks[entry(img.tmap) + 1]>>
                         ELSE IF /\ img.info.version >= 3 /\ img.flux # <<>>
                                 /\ entry(img.flux) # 255
                         THEN <<img.tracks[entry(img.flux) + 1]>>
                         ELSE <<>>
       ELSE cmd.err = "WozError"

PerSectorRecovery ==
  [][ (pc = "parsing" /\ cmd' # cmd) =>
        LET st == cmd.res
            n == st.n
            t == ld.img.tmap[n + 1] + 1
            track == ld.img.tracks[t]
            f == find_this_not_that(track, st.bit_index[t], <<213, 170, 150>>, <<>>)
            a == address_field_at_point(track, f.bit_index)
            e == verify_nibbles_at_point(track, a.bit_index, <<222, 170>>)
            p == find_this_not_that(track, e.bit_index, <<213, 170, 173>>, <<213, 170, 150>>)
            d == data_field_at_point(track, p.bit_index)
            in_address == f.found /\ Fail(a)
            in_data ==
              /\ f.found /\ ~Fail(a) /\ a.val.valid
              /\ a.val.track_id \in 0..159
              /\ a.val.sector_id \in 0..(12 - (a.val.track_id \div 32) - 1)
              /\ e.ok /\ ~InSeq(a.val.sector_id, st.seen_sectors)
              /\ p.found /\ Fail(d)
        IN (in_address \/ in_data) =>
             /\ pc' # "raised"
             /\ cmd'.err = NoError
             /\ cmd'.res.n = n
             /\ cmd'.res.blocks = st.blocks
             /\ Len(cmd'.res.log) = Len(st.log) + 1
             /\ in_data =>
                  cmd'.res.log[Len(st.log) + 1] =
                    [message |-> "T{T},S{S} Data field contains invalid nibble",
                     T |-> a.val.track_id, S |-> a.val.sector_id]
    ]_vars

\* C21: the sector hunt ends.  For every loaded image the loop of parse over
\* the address prologues of a track takes a bounded number of turns, also
\* when every address field it finds fails a test.  A turn of the loop is
\* determined by the cursor of the track and the sectors seen, so a loop
\* that ends never has a turn that goes on and leaves both as it found
\* them.
ParseReturns ==
  [][ (pc = "parsing" /\ pc' = "parsing" /\ cmd'.res.n = cmd.res.n) =>
        \/ cmd'.res.bit_index # cmd.res.bit_index
        \/ cmd'.res.seen_sectors # cmd.res.seen_sectors
    ]_vars

\* C22: block emission.  parse appends a block only in a turn of the loop
\* in which, from the cursor of the track on, an address prologue is found
\* and the sector behind it passes every test: address checksum, track ID
\* in 0..159, sector ID below the sector count of the track ID, address
\* epilogue, sector not yet seen, data prologue before the next address
\* prologue, data field decoded with valid checksums, sector ID of the
\* data field equal to that of the address field, data epilogue; the block
\* is made of these two fields.  And when parse ends on an image whose
\* tmap names one track, and exactly one place of that track starts a
\* sector that passes these tests, blocks holds exactly one block, of that
\* sector.
BlockEmission ==
  [][ (cmd.kind = "parse" /\ pc = "parsing" /\ cmd' # cmd) =>
        LET st == cmd.res
            track == ld.img.tracks[ld.img.tmap[st.n + 1] + 1]
            \* the sector behind an address prologue that ends at bit i
            sector(i) ==
              LET a == address_field_at_point(track, i)
                  e == verify_nibbles_at_point(track, a.bit_index, <<222, 170>>)
                  p == find_this_not_that(track, e.bit_index, <<213, 170, 173>>,
                                          <<213, 170, 150>>)
                  d == data_field_at_point(track, p.bit_index)
                  z == verify_nibbles_at_point(track, d.bit_index, <<222, 170>>)
              IN [ok |-> /\ ~Fail(a) /\ a.val.valid
                         /\ a.val.track_id \in 0..159
                         /\ a.val.sector_id \in 0..(12 - (a.val.track_id \div 32) - 1)
                         /\ e.ok /\ p.found
                         /\ ~Fail(d) /\ d.val.valid
                         /\ d.val.sector_id = a.val.sector_id
                         /\ z.ok,
                  block |-> [address_field |-> a.val, data_field |-> d.val]]
            f == find_this_not_that(track, st.bit_index[ld.img.tmap[st.n + 1] + 1],
                                    <<213, 170, 150>>, <<>>)
            \* the places of the track where a sector that passes every test starts
            starts == { i \in 0..(track.raw_count - 1) :
                          /\ nibble(track, i).bits = 8
                          /\ verify_nibbles_at_point(track, i, <<213, 170, 150>>).ok
                          /\ sector(verify_nibbles_at_point(track, i, <<213, 170, 150>>).bit_index).ok }
            one(i) == sector(verify_nibbles_at_point(track, i, <<213, 170, 150>>).bit_index).block
        IN /\ cmd'.res.blocks # st.blocks =>
                /\ f.found /\ sector(f.bit_index).ok
                /\ ~InSeq(sector(f.bit_index).block.address_field.sector_id, st.seen_sectors)
                /\ cmd'.res.blocks = Append(st.blocks, sector(f.bit_index).block)
           /\ ( /\ pc' \in {"parsed", "raised"}
                /\ Len(SelectSeq(ld.img.tmap, LAMBDA x : x # 255)) = 1
                /\ Cardinality(starts) = 1 )
              => /\ Len(cmd'.res.blocks) = 1
                 /\ \A i \in starts : cmd'.res.blocks[1] = one(i)
    ]_vars

(***************************************************************************)
(* add, remove and clean, called one after the other                       *)
(***************************************************************************)

\* C23: the maps stay valid.  On a new image and on a loaded one, after any
\* calls of add (with a half phase in 0..159), remove and clean, tmap has
\* 160 entries and every entry of tmap and of flux is 0xFF or the index of
\* a track of the image.
TrackMapValid ==
  (cmd.kind = "call" /\ \A n \in 1..Len(cmd.args) : cmd.args[n][2] \in 0..159) =>
    LET img == ld.img
    IN /\ pc = "called" /\ cmd.err = NoError
       /\ Len(img.tmap) = 160
       /\ \A q \in 1..Len(img.tmap) :
            img.tmap[q] = 255 \/ img.tmap[q] \in 0..(Len(img.tracks) - 1)
       /\ \A q \in 1..Len(img.flux) :
            img.flux[q] = 255 \/ img.flux[q] \in 0..(Len(img.tracks) - 1)

\* three calls, add, remove and clean among them, that leave tracks and
\* entries that are not 0xFF, in tmap and in flux
TrackMapValidWitness ==
  /\ cmd.kind = "call" /\ pc = "called" /\ Len(cmd.args) = 3
  /\ \A name \in {"add", "remove", "clean"} : \E n \in 1..3 : cmd.args[n][1] = name
  /\ \E q \in 1..160 : ld.img.tmap[q] \in 1..254
  /\ \E q \in 1..Len(ld.img.flux) : ld.img.flux[q] # 255

\* C24: clean.  After clean every track of the image is referenced by an
\* entry of tmap or of flux, the tracks left are those that were referenced,
\* in their order, every quarter phase of tmap and of flux gives the track
\* it gave before (and 0xFF stays 0xFF), and a second clean changes nothing.
\* An entry 0xFF refers to no track.
CleanRule ==
  (cmd.kind = "call" /\ pc = "called" /\ cmd.args[Len(cmd.args)][1] = "clean") =>
    LET before == cmd.before
        after == ld.img
        referenced(img, i) == i # 255 /\ (InSeq(i, img.tmap) \/ InSeq(i, img.flux))
        IsKept(track) ==
          \E i \in 0..(Len(before.tracks) - 1) :
            before.tracks[i + 1] = track /\ referenced(before, i)
        resolve(img, e) == IF e = 255 THEN <<>> ELSE <<img.tracks[e + 1]>>
        valid(map) == \A q \in 1..Len(map) :
                        map[q] = 255 \/ map[q] \in 0..(Len(after.tracks) - 1)
    IN /\ \A i \in 0..(Len(after.tracks) - 1) : referenced(after, i)
       /\ after.tracks = SelectSeq(before.tracks, IsKept)
       /\ Len(after.tmap) = Len(before.tmap) /\ Len(after.flux) = Len(before.flux)
       /\ valid(after.tmap) /\ valid(after.flux)
       /\ \A q \in 1..Len(before.tmap) :
            resolve(after, after.tmap[q]) = resolve(before, before.tmap[q])
       /\ \A q \in 1..Len(before.flux) :
            resolve(after, after.flux[q]) = resolve(before, before.flux[q])
       /\ clean(after) = after

\* C25: add.  add(hp, track) with hp in 0..159 appends the track, at the
\* index n that was the number of tracks, sets tmap[hp] to n, tmap[hp - 1]
\* when hp > 0 and tmap[hp + 1] when hp < 159, and leaves every other entry
\* of tmap, flux and the tracks that were there as they were.
AddRule ==
  ( /\ cmd.kind = "call" /\ cmd.args[Len(cmd.args)][1] = "add"
    /\ cmd.args[Len(cmd.args)][2] \in 0..159 ) =>
    LET before == cmd.before
        after == ld.img
        hp == cmd.args[Len(cmd.args)][2]
        n == Len(before.tracks)
    IN /\ pc = "called" /\ cmd.err = NoError
       /\ Len(after.tracks) = n + 1
       /\ after.tracks[n + 1].raw_count = 5000 + 8 * (Len(cmd.args) - 1)
       /\ SubSeq(after.tracks, 1, n) = before.tracks
       /\ Len(after.tmap) = Len(before.tmap)
       /\ \A q \in 0..(Len(before.tmap) - 1) :
            after.tmap[q + 1] = IF q \in {hp - 1, hp, hp + 1} THEN n ELSE before.tmap[q + 1]
       /\ after.flux = before.flux

\* an add at a half phase with two neighbours, one of them referring to a
\* track that no entry refers to afterwards
AddRuleWitness ==
  /\ cmd.kind = "call" /\ pc = "called" /\ cmd.args[Len(cmd.args)] = <<"add", 2>>
  /\ cmd.before.tmap[2] \in 0..254
  /\ ~InSeq(cmd.before.tmap[2], ld.img.tmap) /\ ~InSeq(cmd.before.tmap[2], ld.img.flux)
  /\ ld.img.tmap[2] = Len(cmd.before.tracks)
  /\ ld.img.tmap[5] # ld.img.tmap[4]

\* C26: largest_track.  For a WOZ2 image, after a load that succeeded and
\* after any calls of add, remove and clean, info.largest_track is the
\* largest number of 512-byte blocks of a track that tmap refers to, 0 when
\* it refers to none; and dump writes that number into INFO (bytes 44 and
\* 45 of its payload), also when there are tracks and tmap is all 0xFF.
LargestTrack ==
  LET img == ld.img
      blocks(e) == (((img.tracks[e + 1].raw_count + 7) \div 8) + 511) \div 512
      referenced == { img.tmap[q] : q \in 1..Len(img.tmap) } \ {255}
      most == IF referenced = {} THEN 0
              ELSE CHOOSE m \in { blocks(e) : e \in referenced } :
                     \A e \in referenced : blocks(e) <= m
  IN /\ ( /\ img.image_type = kWOZ2 /\ ld.stage # "new"
          /\ pc = "loaded" \/ (cmd.kind = "call" /\ pc = "called") )
        => img.info.largest_track = most
     /\ (pc = "dumped" /\ img.image_type = kWOZ2) =>
          /\ (img.tracks # <<>> /\ referenced = {}) => out.err # "ValueError"
          /\ out.err = NoError => Slice(out.val, 64, 66) = to_uint16(most)

(***************************************************************************)
(* The checksums of a data field                                           *)
(***************************************************************************)
\* In a turn of the loop of parse that comes to a data field whose nibbles
\* are all in the translation table, the 524 bytes and the checksums c1,
\* c2, c3 are computed anew from the 703 translated nibbles behind the
\* sector nibble; the field counts as valid when nibble 700 is
\* high(c1, c2, c3) and nibbles 701..703 are c3 & 0x3F, c2 & 0x3F and
\* c1 & 0x3F.  The turn logs "Data field checksums invalid" exactly when
\* the field is not valid, data_field_at_point says the same, and its tags
\* and data are the 524 bytes, each in 0..255.
DataFieldRule(high(_, _, _)) ==
  (cmd.kind = "parse" /\ pc = "parsing" /\ cmd' # cmd) =>
    LET st == cmd.res
        track == ld.img.tracks[ld.img.tmap[st.n + 1] + 1]
        f == find_this_not_that(track, st.bit_index[ld.img.tmap[st.n + 1] + 1],
                                <<213, 170, 150>>, <<>>)
        sums(c1, c2, c3, bytes) == [c1 |-> c1, c2 |-> c2, c3 |-> c3, bytes |-> bytes]
        s5(c1, c2, c3, bytes, d2) == sums(c1 + Xor8(d2, c2), c2, c3, Append(bytes, Xor8(d2, c2)))
        s4(c1, c2, c3, bytes, d2, last) ==
          IF last THEN sums(c1, c2, c3, bytes)
          ELSE s5(c1 + (IF c2 > 255 THEN 1 ELSE 0), c2 % 256, c3, bytes, d2)
        s3(c1, c2, c3, bytes, d1, d2, last) ==
          s4(c1, c2 + Xor8(d1, c3), c3, Append(bytes, Xor8(d1, c3)), d2, last)
        s2(c1, c2, c3, bytes, d1, d2, last) ==
          s3(c1, c2 + (IF c3 > 255 THEN 1 ELSE 0), c3 % 256, bytes, d1, d2, last)
        s1(c1, c2, c3, bytes, d0, d1, d2, last) ==
          s2(c1, c2, c3 + Xor8(d0, c1), Append(bytes, Xor8(d0, c1)), d1, d2, last)
        s0(c, d0, d1, d2, last) ==
          IF (c.c1 % 256) * 2 > 255
          THEN s1((c.c1 % 256) * 2 - 255, c.c2, c.c3 + 1, c.bytes, d0, d1, d2, last)
          ELSE s1((c.c1 % 256) * 2, c.c2, c.c3, c.bytes, d0, d1, d2, last)
        \* the three bytes of group g of the nibbles n, fed to the decoder
        fed(n, t) == [c |-> s0(t.c, n[4 * t.g - 2] + 64 * ((n[4 * t.g - 3] \div 16) % 4),
                                    n[4 * t.g - 1] + 64 * ((n[4 * t.g - 3] \div 4) % 4),
                                    n[4 * t.g] + 64 * (n[4 * t.g - 3] % 4), t.g = 175),
                      g |-> t.g + 1, halt |-> FALSE]
        decode(n) == Repeatedly(LAMBDA t : fed(n, t),
                                [c |-> sums(0, 0, 0, <<>>), g |-> 1, halt |-> FALSE], 175).c
        valid(n, c) == /\ n[700] = high(c.c1, c.c2, c.c3)
                       /\ n[701] = c.c3 % 64
                       /\ n[702] = c.c2 % 64
                       /\ n[703] = c.c1 % 64
        rule(a, d, n, c) ==
          /\ Len(c.bytes) = 524 /\ \A i \in 1..524 : c.bytes[i] \in 0..255
          /\ d.val.valid <=> valid(n, c)
          /\ d.val.tags \o d.val.data = c.bytes
          /\ valid(n, c) <=>
               ~ /\ Len(cmd'.res.log) = Len(st.log) + 1
                 /\ cmd'.res.log[Len(cmd'.res.log)] =
                      [message |-> "T{T},S{S} Data field checksums invalid",
                       T |-> a.val.track_id, S |-> a.val.sector_id]
        field(a, p) ==
          p.found =>
            LET t == _translated(track, p.bit_index, 704)
            IN ~Fail(t) => rule(a, data_field_at_point(track, p.bit_index),
                                Tail(t.val), decode(Tail(t.val)))
        address(a) ==
          ( /\ ~Fail(a) /\ a.val.valid
            /\ a.val.track_id \in 0..159
            /\ a.val.sector_id \in 0..(12 - (a.val.track_id \div 32) - 1)
            /\ verify_nibbles_at_point(track, a.bit_index, <<222, 170>>).ok
            /\ ~InSeq(a.val.sector_id, st.seen_sectors) )
          => field(a, find_this_not_that(
                        track, verify_nibbles_at_point(track, a.bit_index, <<222, 170>>).bit_index,
                        <<213, 170, 173>>, <<213, 170, 150>>))
    IN f.found => address(address_field_at_point(track, f.bit_index))

\* C27 as it is stated: the 700th nibble is
\* ((c1>>6)&3) | ((c2>>4)&0x30) | ((c3>>2)&0xC0).
DataFieldChecksumStated ==
  [][ DataFieldRule(LAMBDA c1, c2, c3 : ((c1 \div 64) % 4) + 16 * ((c2 \div 256) % 4)
                                         + 64 * ((c3 \div 256) % 4)) ]_vars

\* C27: checksums of a data field.  After the 524 bytes are decoded with the
\* running checksums c1, c2, c3, the data field is valid exactly when the
\* 700th translated nibble is ((c1>>6)&3) | ((c2>>4)&0x0C) | ((c3>>2)&0x30)
\* and the next three translated nibbles are c3 & 0x3F, c2 & 0x3F and
\* c1 & 0x3F in that order; each of the 524 bytes is in 0..255.
DataFieldChecksum ==
  [][ DataFieldRule(LAMBDA c1, c2, c3 : ((c1 \div 64) % 4) + 4 * ((c2 \div 64) % 4)
                                         + 16 * ((c3 \div 64) % 4)) ]_vars

\* parse has taken a sector whose checksums have high bits (c2 = 0x102,
\* c3 = 0xDA) and has turned down the next one for its checksums
DataFieldChecksumWitness ==
  /\ cmd.kind = "parse" /\ pc = "parsed"
  /\ \E i \in 1..Len(cmd.res.blocks) :
       /\ cmd.res.blocks[i].data_field.valid
       /\ \E k \in 1..12 : cmd.res.blocks[i].data_field.tags[k] # 0
  /\ \E i \in 1..Len(cmd.res.log) :
       cmd.res.log[i].message = "T{T},S{S} Data field checksums invalid"

(***************************************************************************)
(* The count of the sectors of a track                                     *)
(***************************************************************************)
\* C28 as it is stated: when the loop of a track ends with fewer sector IDs
\* seen than the track ID has sectors, 'Found X sectors (expected Y)' is
\* logged, also when no sector of the track gave a block (fewer than 8
\* sector IDs seen are too few for every track ID).
SectorCountStated ==
  [][ ( /\ cmd.kind = "parse" /\ pc = "parsing"
        /\ cmd'.err = NoError /\ cmd'.res.n # cmd.res.n
        /\ Len(cmd.res.seen_sectors) < 8 )
      => /\ Len(cmd'.res.log) = Len(cmd.res.log) + 1
         /\ \E id \in 0..159 :
              cmd'.res.log[Len(cmd'.res.log)] =
                [message |-> "T{T} Found {X} sectors (expected {Y})", T |-> id,
                 X |-> Len(cmd.res.seen_sectors), Y |-> <<12, 11, 10, 9, 8>>[(id \div 32) + 1]]
    ]_vars

\* C28: the count of the sectors.  When the loop of a track ends and the
\* scan of the track has given at least one block, T being the track ID of
\* the last of these blocks, Y the number of sectors of T (12, 11, 10, 9, 8
\* for 0x00-0x1F, 0x20-0x3F, 0x40-0x5F, 0x60-0x7F, 0x80-0x9F) and X the
\* number of sector IDs seen: 'T Found X sectors (expected Y)' is logged
\* when X < Y, and nothing when X >= Y.  When the scan has given no block,
\* nothing is logged at the end of the loop.
SectorCountShort ==
  [][ ( /\ cmd.kind = "parse" /\ pc = "parsing"
        /\ cmd'.err = NoError /\ cmd'.res.n # cmd.res.n )
      => LET st == cmd.res
             X == Len(st.seen_sectors)
             T == st.blocks[Len(st.blocks)].address_field.track_id
             Y == <<12, 11, 10, 9, 8>>[(T \div 32) + 1]
         IN /\ cmd'.res.blocks = st.blocks
            /\ st.track_id = 0 - 1 => cmd'.res.log = st.log
            /\ st.track_id # 0 - 1 =>
                 /\ st.blocks # <<>> /\ T = st.track_id
                 /\ cmd'.res.log =
                      IF X < Y
                      THEN Append(st.log, [message |-> "T{T} Found {X} sectors (expected {Y})",
                                           T |-> T, X |-> X, Y |-> Y])
                      ELSE st.log
    ]_vars

\* parse is over and a track of ID 0x20, of which one sector was seen, was
\* found short of its 11 sectors
SectorCountShortWitness ==
  /\ cmd.kind = "parse" /\ pc = "parsed"
  /\ Len(cmd.res.blocks) = 1
  /\ \E i \in 1..Len(cmd.res.log) :
       cmd.res.log[i] = [message |-> "T{T} Found {X} sectors (expected {Y})",
                         T |-> 32, X |-> 1, Y |-> 11]

(***************************************************************************)
(* Each sector once                                                        *)
(***************************************************************************)
\* C29: each sector is recovered at most once.  When parse is over, no two
\* blocks have the same track ID and sector ID, also on an image of which
\* several entries of tmap refer to the same track.  Within the scan of one
\* track, a block is appended only for a sector ID that was not yet seen,
\* and this ID is then seen: the sector IDs of the blocks of the scan are
\* distinct, and no more than the sector IDs seen.
SectorOnce ==
  [][ cmd'.kind = "parse" =>
        /\ pc' = "parsed" =>
             \A i, j \in 1..Len(cmd'.res.blocks) :
               ( /\ cmd'.res.blocks[i].address_field.track_id
                      = cmd'.res.blocks[j].address_field.track_id
                 /\ cmd'.res.blocks[i].address_field.sector_id
                      = cmd'.res.blocks[j].address_field.sector_id ) => i = j
        /\ (pc = "parsing" /\ cmd'.res.blocks # cmd.res.blocks) =>
             LET S == cmd'.res.blocks[Len(cmd'.res.blocks)].address_field.sector_id
             IN /\ Len(cmd'.res.blocks) = Len(cmd.res.blocks) + 1
                /\ SubSeq(cmd'.res.blocks, 1, Len(cmd.res.blocks)) = cmd.res.blocks
                /\ ~InSeq(S, cmd.res.seen_sectors)
                /\ cmd'.res.seen_sectors = Append(cmd.res.seen_sectors, S)
    ]_vars

(***************************************************************************)
(* The order of the --info flags of edit                                   *)
(***************************************************************************)
\* C30 as it is stated: for two --info flags of distinct keys, the image
\* that update leaves, whether it raises, and the error it raises are the
\* same when the flags are given in the other order.
EditFlagsCommuteStated ==
  ( /\ cmd.kind = "edit" /\ pc \in {"updated", "raised"}
    /\ Len(cmd.args.info) = 2 /\ cmd.args.info[1].k # cmd.args.info[2].k )
  => LET swapped == _CommandEdit_update(cmd.before, <<cmd.args.info[2], cmd.args.info[1]>>,
                                        cmd.args.meta)
     IN /\ swapped.err = cmd.err
        /\ cmd.err = NoError => swapped.val = ld.img

\* C30: edit flags commute.  For two --info flags of distinct keys, whether
\* update raises and the image it produces when it does not raise do not
\* depend on the order of the flags, version being applied first, disk_type
\* second and the other fields afterwards; the error raised does not
\* depend on the order either, unless both flags are fields other than
\* version and disk_type and both are rejected: then the error is that of
\* the flag given first.  So
\* disk_sides:2 with disk_type:2 on a 5.25-inch WOZ2 image gives the same
\* image in either order.
EditFlagsCommute ==
  ( /\ cmd.kind = "edit" /\ pc \in {"updated", "raised"}
    /\ Len(cmd.args.info) = 2 /\ cmd.args.info[1].k # cmd.args.info[2].k )
  => LET a == cmd.args.info[1]
         b == cmd.args.info[2]
         swapped == _CommandEdit_update(cmd.before, <<b, a>>, cmd.args.meta)
         alone(f) == _CommandEdit_update(cmd.before, <<f>>, cmd.args.meta)
     IN /\ (swapped.err = NoError) <=> (cmd.err = NoError)
        /\ cmd.err = NoError => (pc = "updated" /\ swapped.val = ld.img)
        /\ swapped.err # cmd.err =>
             /\ {a.k, b.k} \cap {"version", "disk_type"} = {}
             /\ cmd.err = alone(a).err /\ alone(a).err # NoError
             /\ swapped.err = alone(b).err /\ alone(b).err # NoError
        /\ ( /\ cmd.before.image_type = kWOZ2 /\ cmd.before.info.disk_type = 1
             /\ {a, b} = {[k |-> "disk_sides", v |-> <<50>>], [k |-> "disk_type", v |-> <<50>>]} )
           => /\ cmd.err = NoError
              /\ ld.img.info.disk_type = 2 /\ ld.img.info.disk_sides = 2
              /\ ld.img.info.optimal_bit_timing = 16

\* edit was given disk_sides:2 before disk_type:2 on a 5.25-inch WOZ2 image
\* and has left a two-sided 3.5-inch image
EditFlagsCommuteWitness ==
  /\ cmd.kind = "edit" /\ pc = "updated"
  /\ cmd.args.info = <<[k |-> "disk_sides", v |-> <<50>>], [k |-> "disk_type", v |-> <<50>>]>>
  /\ cmd.before.image_type = kWOZ2 /\ cmd.before.info.disk_type = 1
  /\ cmd.before.info.disk_sides = 1
  /\ ld.img.info.disk_type = 2 /\ ld.img.info.disk_sides = 2

=============================================================================
